---- MODULE Spec2Model ----
(***************************************************************************)
(* Model of the SWE-bench PoC evaluation harness                           *)
(* (swe-bench-poc/lib/evaluator.js and the agent it drives) and of the     *)
(* provider comparison of swe-bench-poc/test-setup.js.                     *)
(*                                                                         *)
(* A JavaScript string is modelled as a sequence of tokens; a token stands *)
(* for a run of characters that the code's regular expressions treat as a  *)
(* unit ("FENCE", "python", "def", a blank, a line break, a prose word).     *)
(* JavaScript null is the distinguished value Null.                        *)
(***************************************************************************)
EXTENDS Integers, Sequences, FiniteSets, TLC

\* ------------------------------------------------------------------ bounds
\* total number of evaluateProblem calls made on one Evaluator instance
MaxProblems == 2
\* largest millisecond value the wall clock reaches
MaxClock == 1
\* largest number of test cases of a problem that is evaluated on its own
MaxTests == 2
\* chunks of an analysis text handed to extractFixedCode
MaxChunks == 2
\* results in a list handed to generateReport on its own
MaxResults == 5
\* provider tags listed in one comparison
MaxProviders == 2
\* calls of generate made on one agent
MaxCalls == 2
\* todos created on one TodosService
MaxTodos == 2
\* requests that arrive at the backend
MaxRequests == 3

\* ------------------------------------------------------------ JS values
Null == <<"<null>">>

\* !x for a string-or-null x
Falsy(x) == x = Null \/ x = <<>>

\* whitespace tokens (what \s and String.prototype.trim act on)
WS == {"SP", "NL"}

RECURSIVE TrimLeft(_)
TrimLeft(s) == IF s # <<>> /\ Head(s) \in WS THEN TrimLeft(Tail(s)) ELSE s

RECURSIVE TrimRight(_)
TrimRight(s) ==
  IF s # <<>> /\ s[Len(s)] \in WS THEN TrimRight(SubSeq(s, 1, Len(s) - 1)) ELSE s

Trim(s) == TrimRight(TrimLeft(s))

Min(S) == CHOOSE x \in S : \A y \in S : x <= y

\* String.prototype.includes for a single-token needle
Includes(s, tok) == \E k \in 1..Len(s) : s[k] = tok

\* --------------------------------------------------- extractFixedCode
\* tokens that /FIXED_CODE:/i matches
LabelToks == {"FIXED_CODE:", "fixed_code:"}
\* tokens that /python/i matches; only "python" matches /python/
PyToksCI == {"python", "Python"}
\* the alternatives of /^(def|class|import|from|if|for|while|try|with|\s+)/;
\* the line is trimmed before the test, so \s+ can never match at its start
Keywords == {"def", "class", "import", "from", "if", "for", "while", "try", "with"}

\* index of the first fence at or after position k, 0 when there is none
FirstFence(s, k) ==
  LET F == {q \in k..Len(s) : s[q] = "FENCE"} IN IF F = {} THEN 0 ELSE Min(F)

\* the capture group of  FENCE python\s*([\s\S]*?)\s*FENCE  for an opener at p,
\* trimmed (FENCE stands for three backticks)
FenceBody(s, p) == Trim(SubSeq(s, p + 2, FirstFence(s, p + 2) - 1))

\* start positions of a match of /FENCE python\s*([\s\S]*?)\s*FENCE/ (py = {"python"})
FenceStarts(s, py) ==
  {p \in 1..(Len(s) - 1) :
     s[p] = "FENCE" /\ s[p + 1] \in py /\ FirstFence(s, p + 2) # 0}

\* first position after p that holds no whitespace (Len(s)+1 when none)
SkipWs(s, p) ==
  Min({k \in (p + 1)..(Len(s) + 1) : k = Len(s) + 1 \/ s[k] \notin WS})

\* label positions where /FIXED_CODE:\s*FENCE python\s*([\s\S]*?)\s*FENCE/i matches
LabelStarts(s) ==
  {p \in 1..Len(s) : s[p] \in LabelToks /\ SkipWs(s, p) \in FenceStarts(s, PyToksCI)}

\* start positions of the lines of s.split('\n')
LineStarts(s) == {p \in 1..(Len(s) + 1) : p = 1 \/ s[p - 1] = "NL"}

\* line.trim().match(/^(def|class|...)/) for the line starting at p
StatementLine(s, p) ==
  \E k \in p..Len(s) :
     /\ s[k] \in Keywords
     /\ \A m \in p..(k - 1) : s[m] = "SP"

\* an extraction that takes the first python block before it looks for a label
extractFixedCodeBlockFirst(analysis) ==
  IF FenceStarts(analysis, {"python"}) # {}
  THEN FenceBody(analysis, Min(FenceStarts(analysis, {"python"})))
  ELSE IF LabelStarts(analysis) # {}
  THEN FenceBody(analysis, SkipWs(analysis, Min(LabelStarts(analysis))))
  ELSE LET L == {p \in LineStarts(analysis) : StatementLine(analysis, p)} IN
       IF L = {} THEN Null
       ELSE Trim(SubSeq(analysis, Min(L), Len(analysis)))

\* an extraction whose second tier accepts the language tag in any case
extractFixedCodeAnyCase(analysis) ==
  IF LabelStarts(analysis) # {}
  THEN FenceBody(analysis, SkipWs(analysis, Min(LabelStarts(analysis))))
  ELSE IF FenceStarts(analysis, PyToksCI) # {}
  THEN FenceBody(analysis, Min(FenceStarts(analysis, PyToksCI)))
  ELSE LET L == {p \in LineStarts(analysis) : StatementLine(analysis, p)} IN
       IF L = {} THEN Null
       ELSE Trim(SubSeq(analysis, Min(L), Len(analysis)))

extractFixedCode(analysis) ==
  IF LabelStarts(analysis) # {}
  THEN FenceBody(analysis, SkipWs(analysis, Min(LabelStarts(analysis))))
  ELSE IF FenceStarts(analysis, {"python"}) # {}
  THEN FenceBody(analysis, Min(FenceStarts(analysis, {"python"})))
  ELSE LET L == {p \in LineStarts(analysis) : StatementLine(analysis, p)} IN
       IF L = {} THEN Null
       ELSE Trim(SubSeq(analysis, Min(L), Len(analysis)))

\* ------------------------------------------------------- environment
\* texts an agent's analyzeCode may resolve with
LabeledAnalysis ==
  <<"w", "NL", "FIXED_CODE:", "NL", "FENCE", "python", "NL",
    "def", "SP", "w", "NL", "FENCE", "NL", "w">>
ProseAnalysis == <<"w", "SP", "w">>
EmptyBlockAnalysis == <<"FENCE", "python", "NL", "FENCE">>
AgentAnalyses == { LabeledAnalysis, ProseAnalysis, EmptyBlockAnalysis }

\* texts an agent's generatePatch may resolve with
AgentPatches == { <<"---", "+++">>, <<"w">> }

\* messages generate rejects with
ProviderError == <<"Ollama API error", ":", "w">>
TransportError == <<"Request failed", ":", "w">>
TimeoutError == <<"Request timeout after 60000ms">>

ExtractionError == <<"Could not extract fixed code from analysis">>
SyntaxError == <<"Generated code has syntax errors">>

\* what execAsync of a test script may resolve with
ExecOutputs ==
  { [stdout |-> <<"TEST_PASSED", "NL">>, stderr |-> <<>>],
    [stdout |-> <<"TEST_PASSED", "NL">>, stderr |-> <<"w">>],
    [stdout |-> <<>>, stderr |-> <<>>] }
ExecError == <<"Command failed", ":", "w">>
\* what a failing fs.writeFile rejects with
WriteError == <<"ENOSPC", ":", "w">>

\* the problems handed to the evaluator
Problem(id, tests) == [id |-> id, test_cases |-> tests]
TestCase(k) == <<"assert", k>>
\* the problems of a batch
Pool == { Problem(<<"p", 1>>, <<TestCase(1)>>), Problem(<<"p", 2>>, <<>>) }
\* the problems evaluated on their own
DeepPool == { Problem(<<"d", n>>, [k \in 1..n |-> TestCase(k)]) : n \in 0..MaxTests }

\* what the agent may answer for problem: a problem of a batch draws one
\* analysis that yields a fix and one that does not, and one patch text; a
\* problem evaluated on its own draws every text
AnalysesFor(problem) ==
  IF problem \in Pool
  THEN {LabeledAnalysis, ProseAnalysis}
  ELSE AgentAnalyses
PatchesFor(problem) ==
  IF problem \in Pool THEN {<<"---", "+++">>} ELSE AgentPatches

RECURSIVE SeqsUpTo(_, _)
SeqsUpTo(S, n) ==
  IF n = 0 THEN {<<>>}
  ELSE LET R == SeqsUpTo(S, n - 1) IN
       R \cup {Append(r, x) : r \in {q \in R : Len(q) = n - 1}, x \in S}

ValidatePath(t) == <<"/tmp/validate_", t, ".py">>
TestPath(t, k) == <<"/tmp/test_", t, "_", k, ".py">>

\* ------------------------------------------------------------- state
VARIABLES
  pc,            \* where the evaluator's single thread of control is suspended
  problems,      \* evaluateBatch: the argument
  i,             \* evaluateBatch: the loop index, counted from 1
  batchResults,  \* evaluateBatch: the local results array (the return value)
  result,        \* evaluateProblem: the result object under construction
  stages,        \* evaluateProblem: the stages started so far for this problem
  ti,            \* runTestCases: the loop index i, counted from 0 as in the code
  testResults,   \* runTestCases: the local results array
  tempFile,      \* validateSyntax / runTestCases: the local tempFile
  child,         \* whether the child process now awaited exits at all (the
                 \* syntax checker always does, a test script may loop forever)
  files,         \* the temporary files that exist under /tmp
  tempPaths,     \* every path fs.writeFile has written so far
  now,           \* the wall clock read by Date.now(), in milliseconds
  results,       \* Evaluator.results
  stageLog,      \* for each entry of Evaluator.results, the stages that were started
  report,        \* the value generateReport returned last
  outcomeLog     \* for each evaluateProblem call of the running batch, what
                 \* the file system and the child processes answered, in order

vars == << pc, problems, i, batchResults, result, stages, ti, testResults,
           tempFile, child, files, tempPaths, now, results, stageLog, report,
           outcomeLog >>

\* a function of the evaluator called on its own: its name, its argument, and
\* once it has returned (done) its return value
VARIABLES call

NoCall == [op |-> "none", arg |-> <<>>, ret |-> <<>>, done |-> TRUE]

\* compareProviders of test-setup.js
VARIABLES
  cmpPc,               \* where compareProviders is: "none" while it is not running
  providers,           \* the provider tags listed in options.providers
  cmpProblems,         \* the local problems, after slice(0, limit)
  pk,                  \* the index of the for loop over providers, counted from 1
  provider_results,    \* comparisonResults.provider_results, its keys in
                       \* insertion order
  comparison_summary,  \* comparisonResults.comparison_summary
  cmpLog,              \* what the loop did so far: <<k, event>> for provider k
  cmpEnd               \* how compareProviders ended: whether the report file
                       \* was written, what printComparisonSummary printed,
                       \* and the message the catch block printed

compareVars == << cmpPc, providers, cmpProblems, pk, provider_results,
                  comparison_summary, cmpLog, cmpEnd >>

\* the agents of lib/ and the http requests their generate method makes
VARIABLES
  env,          \* process.env: the value of each variable the agents read
  agent,        \* the agent the factory returned last, NoAgent before
  method,       \* the method of the agent that is running, "none" between calls
  requests,     \* the body of every request generate has written, in order
  req,          \* the request of the running generate call: "none", "open",
                \* "destroyed" (by the timeout handler), "closed"
  promise,      \* the promise the running generate call returned
  events,       \* the events the request of the running call has emitted:
                \* <<"end", body>>, <<"error", cause>>, <<"timeout">>
  returned      \* what the running method returned to its caller or threw

agentVars == << env, agent, method, requests, req, promise, events, returned >>

\* the evaluate and batch commands of test-setup.js
VARIABLES
  runPc,        \* where the command is: "none" while none is running
  command,      \* "evaluate" (evaluateSingle) or "batch" (evaluateBatch)
  connected     \* the local connected, Null until testConnection has resolved

runVars == << runPc, command, connected >>

\* TodosService of the backend, in its two forms
VARIABLES
  service,      \* which TodosService this is: "memory" keeps the array todos
                \* itself, "repository" keeps the rows in a TypeORM repository
  todos,        \* the todos stored, in the order they were inserted
  nextId,       \* the id the next created todo gets (ids are generated and
                \* never handed out twice)
  inflight,     \* the entity an update call of the repository service has
                \* found and not yet saved, NoTodo when no update is between
                \* its two awaits
  todoCall      \* the call that completed last and what it returned or threw

todosVars == << service, todos, nextId, inflight, todoCall >>

\* MaintenanceService, MaintenanceController and MaintenanceGuard
VARIABLES
  isEnabled,    \* MaintenanceService.isEnabled
  handled       \* the requests that arrived so far and whether the guard
                \* admitted each

maintVars == << isEnabled, handled >>

webVars == << todosVars, maintVars >>

appVars == << agentVars, runVars, webVars >>

allvars == << vars, call, compareVars, appVars >>

\* ------------------------------------------------------------ AgentFactory
\* String.prototype.toLowerCase on the provider tags that are written with
\* capitals
LowerToken(t) ==
  CASE t = "OpenAI" -> "openai"
    [] t = "CLAUDE" -> "claude"
    [] OTHER -> t
ToLowerCase(s) == [k \in 1..Len(s) |-> LowerToken(s[k])]

\* a || b for strings-or-null
OrElse(a, b) == IF Falsy(a) THEN b ELSE a

\* Array.prototype.join(', ')
RECURSIVE JoinComma(_)
JoinComma(list) ==
  IF list = <<>> THEN <<>>
  ELSE IF Len(list) = 1 THEN list[1]
  ELSE list[1] \o <<",", "SP">> \o JoinComma(Tail(list))

\* the keys of the provider tables of the factory
SupportedProviders == { <<"ollama">>, <<"openai">>, <<"gemini">>, <<"claude">> }

\* getDefaultModels()[provider], for a supported provider
getDefaultModels(provider) ==
  CASE provider = <<"ollama">> -> <<"qwen:2.5-8b">>
    [] provider = <<"openai">> -> <<"gpt-4">>
    [] provider = <<"gemini">> -> <<"gemini-pro">>
    [] provider = <<"claude">> -> <<"claude-3-sonnet-20240229">>

\* getAvailableModels()[provider], for a supported provider
getAvailableModels(provider) ==
  CASE provider = <<"ollama">> ->
         << <<"qwen:2.5-8b">>, <<"qwen:2.5-14b">>, <<"codellama:13b">>,
            <<"codellama:34b">>, <<"deepseek-coder:6.7b">>,
            <<"deepseek-coder:33b">>, <<"llama3:8b">>, <<"llama3:70b">> >>
    [] provider = <<"openai">> ->
         << <<"gpt-4">>, <<"gpt-4-turbo">>, <<"gpt-3.5-turbo">>, <<"gpt-4o">>,
            <<"gpt-4o-mini">> >>
    [] provider = <<"gemini">> ->
         << <<"gemini-pro">>, <<"gemini-1.5-pro">>, <<"gemini-1.5-flash">> >>
    [] provider = <<"claude">> ->
         << <<"claude-3-sonnet-20240229">>, <<"claude-3-opus-20240229">>,
            <<"claude-3-haiku-20240307">>, <<"claude-3-5-sonnet-20241022">> >>

\* an allow-list that holds every model
isValidProviderModelAny(provider, model) == TRUE

\* isValidProviderModel(provider, model), lines 93-102
isValidProviderModel(provider, model) ==
  LET normalizedProvider == ToLowerCase(provider) IN
  IF normalizedProvider \notin SupportedProviders THEN FALSE
  ELSE \E k \in 1..Len(getAvailableModels(normalizedProvider)) :
         getAvailableModels(normalizedProvider)[k] = model

\* getRequiredEnvVars()[provider], for a supported provider
getRequiredEnvVars(provider) ==
  CASE provider = <<"ollama">> -> <<>>
    [] provider = <<"openai">> -> << "OPENAI_API_KEY" >>
    [] provider = <<"gemini">> -> << "GEMINI_API_KEY" >>
    [] provider = <<"claude">> -> << "ANTHROPIC_API_KEY" >>

\* the variables of process.env the agents read
EnvNames == {"OPENAI_API_KEY", "GEMINI_API_KEY", "ANTHROPIC_API_KEY"}

\* Array.prototype.filter(varName => !process.env[varName])
RECURSIVE FilterMissing(_, _)
FilterMissing(list, processEnv) ==
  IF list = <<>> THEN <<>>
  ELSE IF Falsy(processEnv[Head(list)])
       THEN << <<Head(list)>> >> \o FilterMissing(Tail(list), processEnv)
       ELSE FilterMissing(Tail(list), processEnv)

\* validateEnvironment(provider), lines 122-137, reading process.env = processEnv
validateEnvironment(provider, processEnv) ==
  LET normalizedProvider == ToLowerCase(provider) IN
  IF normalizedProvider \notin SupportedProviders
  THEN [valid |-> FALSE, missing |-> <<>>,
        error |-> <<"Unknown provider", ":">> \o provider]
  ELSE LET missing == FilterMissing(getRequiredEnvVars(normalizedProvider), processEnv) IN
       [valid |-> Len(missing) = 0, missing |-> missing,
        error |-> IF Len(missing) > 0
                  THEN <<"Missing environment variables", ":">> \o JoinComma(missing)
                  ELSE Null]

\* no agent
NoAgent == [variant |-> "none", model |-> Null, apiKey |-> Null]

\* what a constructor or a factory method did: the message of the Error it
\* threw (Null when it returned), the agent it returned, and the variants
\* whose constructor was entered
Threw(message, constructed) ==
  [threw |-> message, agent |-> NoAgent, constructed |-> constructed]
Made(made) ==
  [threw |-> Null, agent |-> made, constructed |-> <<made.variant>>]

\* new OllamaAgent(options), ollama-agent.js lines 7-12
OllamaAgent(options) ==
  Made([variant |-> "ollama",
        model |-> OrElse(options.model, <<"qwen:2.5-8b">>),
        apiKey |-> Null])

\* new OpenAIAgent(options), lines 201-210
OpenAIAgent(options, processEnv) ==
  LET apiKey == OrElse(options.apiKey, processEnv["OPENAI_API_KEY"]) IN
  IF Falsy(apiKey)
  THEN Threw(<<"OpenAI API key required">>, <<"openai">>)
  ELSE Made([variant |-> "openai", model |-> OrElse(options.model, <<"gpt-4">>),
             apiKey |-> apiKey])

\* new GeminiAgent(options), lines 7-16
GeminiAgent(options, processEnv) ==
  LET apiKey == OrElse(options.apiKey, processEnv["GEMINI_API_KEY"]) IN
  IF Falsy(apiKey)
  THEN Threw(<<"Gemini API key required">>, <<"gemini">>)
  ELSE Made([variant |-> "gemini", model |-> OrElse(options.model, <<"gemini-pro">>),
             apiKey |-> apiKey])

\* new ClaudeAgent(options), lines 7-17
ClaudeAgent(options, processEnv) ==
  LET apiKey == OrElse(options.apiKey, processEnv["ANTHROPIC_API_KEY"]) IN
  IF Falsy(apiKey)
  THEN Threw(<<"Anthropic API key required">>, <<"claude">>)
  ELSE Made([variant |-> "claude",
             model |-> OrElse(options.model, <<"claude-3-sonnet-20240229">>),
             apiKey |-> apiKey])

\* createAgent(provider, options), lines 16-35
createAgent(provider, options, processEnv) ==
  LET normalizedProvider == ToLowerCase(provider) IN
  CASE normalizedProvider = <<"ollama">> -> OllamaAgent(options)
    [] normalizedProvider = <<"openai">> -> OpenAIAgent(options, processEnv)
    [] normalizedProvider = <<"gemini">> -> GeminiAgent(options, processEnv)
    [] normalizedProvider = <<"claude">> -> ClaudeAgent(options, processEnv)
    [] OTHER -> Threw(<<"Unsupported provider", ":">> \o provider, <<>>)

\* a factory that does not look at the environment
createValidatedAgentNoEnvCheck(provider, options, processEnv) ==
  LET model == IF Falsy(options.model)
               THEN getDefaultModels(ToLowerCase(provider))
               ELSE options.model
  IN IF ~isValidProviderModel(provider, model)
     THEN Threw(<<"Invalid model">>, <<>>)
     ELSE createAgent(provider, [options EXCEPT !.model = model], processEnv)

\* createValidatedAgent(provider, options), lines 145-165
createValidatedAgent(provider, options, processEnv) ==
  LET envCheck == validateEnvironment(provider, processEnv) IN
  IF ~envCheck.valid THEN Threw(envCheck.error, <<>>)
  ELSE LET model == IF Falsy(options.model)
                    THEN getDefaultModels(ToLowerCase(provider))
                    ELSE options.model
       IN IF ~isValidProviderModel(provider, model)
          THEN Threw(<<"Invalid model">> \o model \o <<"for provider">> \o provider
                       \o <<"Available models", ":">>
                       \o JoinComma(getAvailableModels(ToLowerCase(provider))),
                     <<>>)
          ELSE createAgent(provider, [options EXCEPT !.model = model], processEnv)

\* the options createValidatedAgent(provider) is called with when none are given
NoOptions == [model |-> Null, apiKey |-> Null]

\* every setting of the environment variables: unset, empty, or a key
Envs == [EnvNames -> {Null, <<>>, <<"sk">>}]

\* a promise that is not settled, and one that is
Pending == [state |-> "pending", value |-> Null]
Fulfilled(text) == [state |-> "fulfilled", value |-> text]
Rejected(message) == [state |-> "rejected", value |-> message]

\* a method that has not returned
NotReturned == [done |-> FALSE, threw |-> FALSE, value |-> Null]

\* no variable of the environment is set
UnsetEnv == [name \in EnvNames |-> Null]

\* no agent exists and no method of one runs
AgentIdle ==
  /\ agent = NoAgent
  /\ method = "none"
  /\ requests = <<>>
  /\ req = "none"
  /\ promise = Pending
  /\ events = <<>>
  /\ returned = NotReturned

\* no command runs
RunIdle ==
  /\ runPc = "none"
  /\ command = "none"
  /\ connected = Null

\* an option, a field or a member that is not given
Undefined == "undefined"

\* no todo (what a call that throws returns)
NoTodo == [id |-> -1, title |-> Undefined, status |-> Undefined]

\* no call of TodosService has completed
NoTodoCall == [op |-> "none", id |-> -1, threw |-> "none", ret |-> NoTodo]

\* the service as constructed: private todos: Todo[] = [], an empty table
TodosIdle ==
  /\ todos = <<>>
  /\ nextId = 1
  /\ inflight = NoTodo
  /\ todoCall = NoTodoCall

\* MaintenanceService as constructed: private isEnabled = false
MaintenanceIdle ==
  /\ isEnabled = FALSE
  /\ handled = <<>>

AppIdle ==
  /\ env = UnsetEnv /\ AgentIdle /\ RunIdle
  /\ service = "memory" /\ TodosIdle /\ MaintenanceIdle

NoResult ==
  [problem_id |-> <<>>, success |-> FALSE, error |-> Null, analysis |-> Null,
   generated_fix |-> Null, patch |-> Null, test_results |-> <<>>]
NoFile == <<>>
NoReport ==
  [total_problems |-> -1, successful_solutions |-> -1, failed_solutions |-> -1,
   success_rate |-> <<>>]

\* evaluateProblem, lines 23-33 (execution_time and timestamp are left out)
NewResult(problem) == [NoResult EXCEPT !.problem_id = problem.id]

\* Date.now(): the clock has stayed in the same millisecond or moved on
DateNow == {t \in {now, now + 1} : t <= MaxClock}

\* a verdict that wants every test to pass
determineSucessEvery(r, problem) ==
  IF ~Falsy(r.error) THEN FALSE
  ELSE IF Falsy(r.generated_fix) \/ Len(Trim(r.generated_fix)) = 0 THEN FALSE
  ELSE \A k \in 1..Len(r.test_results) : r.test_results[k].passed

determineSucess(r, problem) ==
  IF ~Falsy(r.error) THEN FALSE
  ELSE IF Falsy(r.generated_fix) \/ Len(Trim(r.generated_fix)) = 0 THEN FALSE
  ELSE IF Len(r.test_results) > 0
       THEN Cardinality({k \in 1..Len(r.test_results) : r.test_results[k].passed}) > 0
       ELSE TRUE

\* the decimal digits of a natural number, most significant first
Digit(d) == <<"0", "1", "2", "3", "4", "5", "6", "7", "8", "9">>[d + 1]
RECURSIVE Digits(_)
Digits(n) == IF n < 10 THEN <<Digit(n)>> ELSE Append(Digits(n \div 10), Digit(n % 10))

\* a percentage that truncates after the second decimal
ToFixed2Truncates(successful, total) == (successful * 10000) \div total

\* (successful / total * 100).toFixed(2): the hundredths of a percent nearest
\* to the quotient (the quotients of the lists considered are no ties)
ToFixed2(successful, total) == (2 * successful * 10000 + total) \div (2 * total)

\* the string toFixed(2) returns for h hundredths: digits, a point, two digits
Fixed2String(h) ==
  Digits(h \div 100) \o <<".", Digit((h % 100) \div 10), Digit(h % 10)>>

generateReport(rs) ==
  LET total == Len(rs)
      successful == Cardinality({k \in 1..Len(rs) : rs[k].success})
  IN [total_problems |-> total,
      successful_solutions |-> successful,
      failed_solutions |-> total - successful,
      success_rate |-> IF total > 0
                       THEN Fixed2String(ToFixed2(successful, total)) \o <<"%">>
                       ELSE <<"0", "%">>]

EvaluatorInit ==
  /\ pc = "idle"
  /\ problems = <<>>
  /\ i = 1
  /\ batchResults = <<>>
  /\ result = NoResult
  /\ stages = <<>>
  /\ ti = 0
  /\ testResults = <<>>
  /\ tempFile = NoFile
  /\ child = "none"
  /\ files = {}
  /\ tempPaths = {}
  /\ now = 0
  /\ results = <<>>
  /\ stageLog = <<>>
  /\ report = NoReport
  /\ outcomeLog = <<>>

\* comparison_summary before generateComparisonSummary has run (line 424)
NoSummary ==
  [best_performer |-> Null, performance_ranking |-> <<>>,
   average_success_rate |-> <<>>]

\* compareProviders has not ended
NoEnd == [written |-> FALSE, printed |-> <<>>, error |-> Null]

\* no comparison is running
CompareIdle ==
  /\ cmpPc = "none"
  /\ providers = <<>>
  /\ cmpProblems = <<>>
  /\ pk = 1
  /\ provider_results = <<>>
  /\ comparison_summary = NoSummary
  /\ cmpLog = <<>>
  /\ cmpEnd = NoEnd

Init == EvaluatorInit /\ call = NoCall /\ CompareIdle /\ AppIdle

\* the environment answered the running evaluateProblem call with event
Observed(event) ==
  outcomeLog' = [outcomeLog EXCEPT ![Len(outcomeLog)] = Append(@, event)]

\* an evaluateBatch that puts each result in front of the earlier ones
ReturnsUnshift(r, started) ==
  /\ results' = Append(results, r)
  /\ batchResults' = <<r>> \o batchResults
  /\ stageLog' = Append(stageLog, started)
  /\ i' = i + 1
  /\ pc' = "loop"
  /\ result' = NoResult
  /\ stages' = <<>>

\* evaluateProblem lines 95-97 and evaluateBatch line 257: r is pushed to
\* Evaluator.results, returned, and pushed to evaluateBatch's results
Returns(r, started) ==
  /\ results' = Append(results, r)
  /\ batchResults' = Append(batchResults, r)
  /\ stageLog' = Append(stageLog, started)
  /\ i' = i + 1
  /\ pc' = "loop"
  /\ result' = NoResult
  /\ stages' = <<>>

\* a catch block that forgets to record the message
CaughtNoMessage(r, message, started) ==
  Returns([r EXCEPT !.success = FALSE], started)

\* a catch block that returns the result without pushing it to Evaluator.results
CaughtNoPush(r, message, started) ==
  /\ results' = results
  /\ batchResults' = Append(batchResults, [r EXCEPT !.error = message, !.success = FALSE])
  /\ stageLog' = stageLog
  /\ i' = i + 1
  /\ pc' = "loop"
  /\ result' = NoResult
  /\ stages' = <<>>

\* the catch block of evaluateProblem, lines 89-93, then the return
Caught(r, message, started) ==
  Returns([r EXCEPT !.error = message, !.success = FALSE], started)

\* step 6, lines 80-81, then the return
Verdict(r, started) ==
  Returns([r EXCEPT !.success = determineSucess(r, problems[i])],
          Append(started, "verdict"))

\* evaluateBatch(ps) is called, lines 248-252
EvaluateBatch(ps) ==
  /\ pc \in {"idle", "returned"}
  /\ problems' = ps
  /\ i' = 1
  /\ batchResults' = <<>>
  /\ pc' = "loop"
  /\ report' = NoReport
  /\ outcomeLog' = <<>>
  /\ UNCHANGED << result, stages, ti, testResults, tempFile, child, files,
                  tempPaths, now, results, stageLog >>

\* evaluateBatch lines 252-256 and evaluateProblem lines 21-44, up to the
\* await of agent.analyzeCode
EvaluateProblem ==
  /\ pc = "loop"
  /\ i <= Len(problems)
  /\ result' = NewResult(problems[i])
  /\ stages' = <<"analyze">>
  /\ pc' = "analyze_wait"
  /\ outcomeLog' = Append(outcomeLog, <<>>)
  /\ UNCHANGED << problems, i, batchResults, ti, testResults, tempFile, child,
                  files, tempPaths, now, results, stageLog, report >>

\* evaluateBatch line 260
BatchReturns ==
  /\ pc = "loop"
  /\ i > Len(problems)
  /\ pc' = "returned"
  /\ UNCHANGED << problems, i, batchResults, result, stages, ti, testResults,
                  tempFile, child, files, tempPaths, now, results, stageLog, report,
                  outcomeLog >>

\* an evaluateProblem that does not look at what extractFixedCode returned
AnalyzeResolvesNoCheck(text) ==
  /\ pc = "analyze_wait"
  /\ LET fixedCode == extractFixedCode(text)
         r == [result EXCEPT !.analysis = text]
     IN /\ result' = [r EXCEPT !.generated_fix = fixedCode]
        /\ stages' = stages \o <<"extract", "patch">>
        /\ pc' = "patch_wait"
        /\ UNCHANGED << i, batchResults, results, stageLog >>
  /\ UNCHANGED << problems, ti, testResults, tempFile, child, files, tempPaths,
                  now, report, outcomeLog >>

\* analyzeCode resolves with text: lines 45-60, up to the await of generatePatch
AnalyzeResolves(text) ==
  /\ pc = "analyze_wait"
  /\ LET fixedCode == extractFixedCode(text)
         r == [result EXCEPT !.analysis = text]
     IN IF Falsy(fixedCode)
        THEN Caught(r, ExtractionError, Append(stages, "extract"))
        ELSE /\ result' = [r EXCEPT !.generated_fix = fixedCode]
             /\ stages' = stages \o <<"extract", "patch">>
             /\ pc' = "patch_wait"
             /\ UNCHANGED << i, batchResults, results, stageLog >>
  /\ UNCHANGED << problems, ti, testResults, tempFile, child, files, tempPaths,
                  now, report, outcomeLog >>

\* analyzeCode rejects: the remote side reported an error or the request failed
AnalyzeRejects(message) ==
  /\ pc = "analyze_wait"
  /\ Caught(result, message, stages)
  /\ UNCHANGED << problems, ti, testResults, tempFile, child, files, tempPaths,
                  now, report, outcomeLog >>

\* the request's timeout event fires while analyzeCode is awaited
AnalyzeTimesOut ==
  /\ pc = "analyze_wait"
  /\ Caught(result, TimeoutError, stages)
  /\ UNCHANGED << problems, ti, testResults, tempFile, child, files, tempPaths,
                  now, report, outcomeLog >>

\* an evaluateProblem that takes the patch text for the fix
PatchResolvesAppliesPatch(patch) ==
  /\ pc = "patch_wait"
  /\ \E t \in DateNow, written \in BOOLEAN :
       LET r == [result EXCEPT !.patch = patch, !.generated_fix = patch]
           path == ValidatePath(t)
       IN /\ now' = t
          /\ IF written
             THEN /\ files' = files \cup {path}
                  /\ tempPaths' = tempPaths \cup {path}
                  /\ tempFile' = path
                  /\ child' = "exits"
                  /\ result' = r
                  /\ stages' = Append(stages, "syntax")
                  /\ pc' = "syntax_wait"
                  /\ Observed(<<"writeFile", <<"ok">>, <<>>>>)
                  /\ UNCHANGED << i, batchResults, results, stageLog >>
             ELSE /\ Caught(r, SyntaxError, Append(stages, "syntax"))
                  /\ Observed(<<"writeFile", WriteError, <<>>>>)
                  /\ UNCHANGED << files, tempPaths, tempFile, child >>
  /\ UNCHANGED << problems, ti, testResults, report >>

\* generatePatch resolves: lines 61-65 and validateSyntax lines 141-147, up to
\* the await of the syntax checker (or the failure of fs.writeFile)
PatchResolves(patch) ==
  /\ pc = "patch_wait"
  /\ \E t \in DateNow, written \in BOOLEAN :
       LET r == [result EXCEPT !.patch = patch]
           path == ValidatePath(t)
       IN /\ now' = t
          /\ IF written
             THEN /\ files' = files \cup {path}
                  /\ tempPaths' = tempPaths \cup {path}
                  /\ tempFile' = path
                  /\ child' = "exits"
                  /\ result' = r
                  /\ stages' = Append(stages, "syntax")
                  /\ pc' = "syntax_wait"
                  /\ Observed(<<"writeFile", <<"ok">>, <<>>>>)
                  /\ UNCHANGED << i, batchResults, results, stageLog >>
             ELSE /\ Caught(r, SyntaxError, Append(stages, "syntax"))
                  /\ Observed(<<"writeFile", WriteError, <<>>>>)
                  /\ UNCHANGED << files, tempPaths, tempFile, child >>
  /\ UNCHANGED << problems, ti, testResults, report >>

PatchRejects(message) ==
  /\ pc = "patch_wait"
  /\ Caught(result, message, stages)
  /\ UNCHANGED << problems, ti, testResults, tempFile, child, files, tempPaths,
                  now, report, outcomeLog >>

PatchTimesOut ==
  /\ pc = "patch_wait"
  /\ Caught(result, TimeoutError, stages)
  /\ UNCHANGED << problems, ti, testResults, tempFile, child, files, tempPaths,
                  now, report, outcomeLog >>

\* the syntax checker exits with status zero: validateSyntax lines 150-151,
\* evaluateProblem lines 66-73 (and 80-97 when there are no test cases)
SyntaxAccepts ==
  /\ pc = "syntax_wait"
  /\ child = "exits"
  /\ files' = files \ {tempFile}
  /\ tempFile' = NoFile
  /\ child' = "none"
  /\ Observed(<<"checker", <<"ok">>, <<>>>>)
  /\ IF Len(problems[i].test_cases) > 0
     THEN /\ pc' = "test_loop"
          /\ ti' = 0
          /\ testResults' = <<>>
          /\ UNCHANGED << i, batchResults, result, stages, results, stageLog >>
     ELSE /\ Verdict(result, stages)
          /\ UNCHANGED << ti, testResults >>
  /\ UNCHANGED << problems, tempPaths, now, report >>

\* a syntax check whose verdict is not looked at
SyntaxRejectsIgnored ==
  /\ pc = "syntax_wait"
  /\ child = "exits"
  /\ tempFile' = NoFile
  /\ child' = "none"
  /\ Observed(<<"checker", ExecError, <<>>>>)
  /\ IF Len(problems[i].test_cases) > 0
     THEN /\ pc' = "test_loop"
          /\ ti' = 0
          /\ testResults' = <<>>
          /\ UNCHANGED << i, batchResults, result, stages, results, stageLog >>
     ELSE /\ Verdict(result, stages)
          /\ UNCHANGED << ti, testResults >>
  /\ UNCHANGED << problems, files, tempPaths, now, report >>

\* the syntax checker exits with a nonzero status: validateSyntax lines
\* 152-154, evaluateProblem lines 66-68 and 89-97
SyntaxRejects ==
  /\ pc = "syntax_wait"
  /\ child = "exits"
  /\ tempFile' = NoFile
  /\ child' = "none"
  /\ Observed(<<"checker", ExecError, <<>>>>)
  /\ Caught(result, SyntaxError, stages)
  /\ UNCHANGED << problems, ti, testResults, files, tempPaths, now, report >>

\* the TestResult of runTestCases lines 169-175
NewTestResult(k, testCase) ==
  [test_id |-> k, test_case |-> testCase, passed |-> FALSE, output |-> Null,
   error |-> Null]

\* runTestCases lines 167-191: one iteration up to the await of the test script
\* (or the failure of fs.writeFile, lines 203-208)
TestStarts ==
  /\ pc = "test_loop"
  /\ ti < Len(problems[i].test_cases)
  /\ \E t \in DateNow, written \in BOOLEAN, c \in {"exits", "hangs"} :
       LET path == TestPath(t, ti)
           testResult == NewTestResult(ti, problems[i].test_cases[ti + 1])
       IN /\ now' = t
          /\ IF written
             THEN /\ files' = files \cup {path}
                  /\ tempPaths' = tempPaths \cup {path}
                  /\ tempFile' = path
                  /\ child' = c
                  /\ stages' = Append(stages, "test")
                  /\ pc' = "test_wait"
                  /\ Observed(<<"writeFile", <<"ok">>, <<>>>>)
                  /\ UNCHANGED << ti, testResults >>
             ELSE /\ testResults' =
                       Append(testResults, [testResult EXCEPT !.error = WriteError])
                  /\ ti' = ti + 1
                  /\ stages' = Append(stages, "test")
                  /\ Observed(<<"writeFile", WriteError, <<>>>>)
                  /\ UNCHANGED << pc, files, tempPaths, tempFile, child >>
  /\ UNCHANGED << problems, i, batchResults, result, results, stageLog, report >>

\* a classification that looks at stdout alone
TestResolvesIgnoresStderr(stdout, stderr) ==
  /\ pc = "test_wait"
  /\ child = "exits"
  /\ LET testResult == NewTestResult(ti, problems[i].test_cases[ti + 1])
     IN testResults' =
          Append(testResults,
                 [testResult EXCEPT
                    !.output = stdout,
                    !.passed = Includes(stdout, "TEST_PASSED"),
                    !.error = IF ~Falsy(stderr) THEN stderr ELSE Null])
  /\ Observed(<<"script", stdout, stderr>>)
  /\ files' = files \ {tempFile}
  /\ tempFile' = NoFile
  /\ child' = "none"
  /\ ti' = ti + 1
  /\ pc' = "test_loop"
  /\ UNCHANGED << problems, i, batchResults, result, stages, tempPaths, now,
                  results, stageLog, report >>

\* the test script exits with status zero: lines 193-201 and 208
TestResolves(stdout, stderr) ==
  /\ pc = "test_wait"
  /\ child = "exits"
  /\ LET testResult == NewTestResult(ti, problems[i].test_cases[ti + 1])
     IN testResults' =
          Append(testResults,
                 [testResult EXCEPT
                    !.output = stdout,
                    !.passed = Includes(stdout, "TEST_PASSED") /\ Falsy(stderr),
                    !.error = IF ~Falsy(stderr) THEN stderr ELSE Null])
  /\ Observed(<<"script", stdout, stderr>>)
  /\ files' = files \ {tempFile}
  /\ tempFile' = NoFile
  /\ child' = "none"
  /\ ti' = ti + 1
  /\ pc' = "test_loop"
  /\ UNCHANGED << problems, i, batchResults, result, stages, tempPaths, now,
                  results, stageLog, report >>

\* a failing test script that ends the loop
TestRejectsEndsLoop ==
  /\ pc = "test_wait"
  /\ child = "exits"
  /\ LET testResult == NewTestResult(ti, problems[i].test_cases[ti + 1])
     IN testResults' =
          Append(testResults,
                 [testResult EXCEPT !.error = ExecError, !.passed = FALSE])
  /\ Observed(<<"script", ExecError, ExecError>>)
  /\ tempFile' = NoFile
  /\ child' = "none"
  /\ ti' = Len(problems[i].test_cases)
  /\ pc' = "test_loop"
  /\ UNCHANGED << problems, i, batchResults, result, stages, files, tempPaths,
                  now, results, stageLog, report >>

\* the test script exits with a nonzero status: lines 203-208
TestRejects ==
  /\ pc = "test_wait"
  /\ child = "exits"
  /\ LET testResult == NewTestResult(ti, problems[i].test_cases[ti + 1])
     IN testResults' =
          Append(testResults,
                 [testResult EXCEPT !.error = ExecError, !.passed = FALSE])
  /\ Observed(<<"script", ExecError, ExecError>>)
  /\ tempFile' = NoFile
  /\ child' = "none"
  /\ ti' = ti + 1
  /\ pc' = "test_loop"
  /\ UNCHANGED << problems, i, batchResults, result, stages, files, tempPaths,
                  now, results, stageLog, report >>

\* runTestCases line 211 and evaluateProblem lines 73-97
TestsReturn ==
  /\ pc = "test_loop"
  /\ ti >= Len(problems[i].test_cases)
  /\ Verdict([result EXCEPT !.test_results = testResults], stages)
  /\ ti' = 0
  /\ testResults' = <<>>
  /\ UNCHANGED << problems, tempFile, child, files, tempPaths, now, report,
                  outcomeLog >>

\* generateReport() is called between two batches
GenerateReport ==
  /\ pc \in {"idle", "returned"}
  /\ report' = generateReport(results)
  /\ UNCHANGED << pc, problems, i, batchResults, result, stages, ti, testResults,
                  tempFile, child, files, tempPaths, now, results, stageLog,
                  outcomeLog >>

\* no function is called on its own and no comparison moves
Others == UNCHANGED << call, compareVars, appVars >>

\* every step of a batch but the start of a problem
RunStep ==
  \/ BatchReturns /\ Others
  \/ /\ pc = "analyze_wait"
     /\ \E text \in AnalysesFor(problems[i]) : AnalyzeResolves(text)
     /\ Others
  \/ \E message \in {ProviderError, TransportError} : AnalyzeRejects(message) /\ Others
  \/ AnalyzeTimesOut /\ Others
  \/ /\ pc = "patch_wait"
     /\ \E patch \in PatchesFor(problems[i]) : PatchResolves(patch)
     /\ Others
  \/ \E message \in {ProviderError, TransportError} : PatchRejects(message) /\ Others
  \/ PatchTimesOut /\ Others
  \/ SyntaxAccepts /\ Others
  \/ SyntaxRejects /\ Others
  \/ TestStarts /\ Others
  \/ \E out \in ExecOutputs : TestResolves(out.stdout, out.stderr) /\ Others
  \/ TestRejects /\ Others
  \/ TestsReturn /\ Others

\* every step but the call of evaluateBatch
Step ==
  \/ EvaluateProblem /\ Others
  \/ RunStep
  \/ GenerateReport /\ Others

\* one Evaluator is handed batches of problems, MaxProblems problems in all
Next ==
  \/ \E ps \in SeqsUpTo(Pool, MaxProblems - Len(results)) :
       EvaluateBatch(ps) /\ Others
  \/ Step

Spec == Init /\ [][Next]_allvars

\* one Evaluator is handed a single problem with up to MaxTests test cases
NextProblem ==
  \/ \E problem \in DeepPool :
       results = <<>> /\ EvaluateBatch(<<problem>>) /\ Others
  \/ Step

SpecProblem == Init /\ [][NextProblem]_allvars

\* the event loop runs every continuation that is ready; nothing forces a
\* child process to exit
FairSpecProblem == SpecProblem /\ WF_vars(Step)

\* one Evaluator is handed the same problem twice in one batch
NextTwoRuns ==
  \/ \E problem \in DeepPool :
       /\ results = <<>>
       /\ Len(problem.test_cases) <= 1
       /\ EvaluateBatch(<<problem, problem>>)
       /\ Others
  \/ Step

SpecTwoRuns == Init /\ [][NextTwoRuns]_allvars

\* -------------------------------------- test-setup.js: compareProviders
\* an entry of provider_results under the key provider: a report (no error
\* field, hence Null) or the object of the catch block
Entry(provider, error, success_rate) ==
  [provider |-> provider, error |-> error, success_rate |-> success_rate]

\* provider_results[provider] = ...: a key that exists keeps its place in the
\* insertion order, a new key goes to the end
Put(entries, provider, error, success_rate) ==
  IF \E k \in 1..Len(entries) : entries[k].provider = provider
  THEN [k \in 1..Len(entries) |->
          IF entries[k].provider = provider
          THEN Entry(provider, error, success_rate) ELSE entries[k]]
  ELSE Append(entries, Entry(provider, error, success_rate))

\* s.replace('%', ''): the first percent sign is dropped
ReplacePercent(s) ==
  LET P == {k \in 1..Len(s) : s[k] = "%"} IN
  IF P = {} THEN s
  ELSE SubSeq(s, 1, Min(P) - 1) \o SubSeq(s, Min(P) + 1, Len(s))

DigitTokens == {Digit(d) : d \in 0..9}
\* the longest prefix of s made of digits
RECURSIVE DigitPrefix(_)
DigitPrefix(s) ==
  IF s # <<>> /\ Head(s) \in DigitTokens
  THEN <<Head(s)>> \o DigitPrefix(Tail(s)) ELSE <<>>
RECURSIVE ParseInt(_)
ParseInt(ds) ==
  IF ds = <<>> THEN 0
  ELSE 10 * ParseInt(SubSeq(ds, 1, Len(ds) - 1))
       + (CHOOSE d \in 0..9 : Digit(d) = ds[Len(ds)])

\* parseFloat(s) in hundredths, for an s that starts with a digit and has at
\* most two decimals (every success_rate written by this program)
parseFloat(s) ==
  LET ip == DigitPrefix(s)
      rest == SubSeq(s, Len(ip) + 1, Len(s))
      frac == IF rest # <<>> /\ Head(rest) = "." THEN DigitPrefix(Tail(rest)) ELSE <<>>
  IN 100 * ParseInt(ip)
     + (IF Len(frac) = 0 THEN 0
        ELSE IF Len(frac) = 1 THEN 10 * ParseInt(frac)
        ELSE ParseInt(SubSeq(frac, 1, 2)))

\* String(x) for a number x of h hundredths: no trailing zeros, no point
\* when x is whole
NumberToString(h) ==
  Digits(h \div 100) \o
    (IF h % 100 = 0 THEN <<>>
     ELSE IF h % 10 = 0 THEN <<".", Digit((h % 100) \div 10)>>
     ELSE <<".", Digit((h % 100) \div 10), Digit(h % 10)>>)

\* (sum / n).toFixed(1) for a sum of h hundredths: the nearest tenth (the
\* means of the rates considered are no ties), digits, a point, one digit
ToFixed1(h, n) ==
  LET tenths == (2 * h + 10 * n) \div (20 * n) IN
  Digits(tenths \div 10) \o <<".", Digit(tenths % 10)>>

\* Array.prototype.sort((a, b) => b.success_rate - a.success_rate): descending
\* and stable
RECURSIVE InsertDesc(_, _)
InsertDesc(sorted, x) ==
  IF sorted = <<>> THEN <<x>>
  ELSE IF Head(sorted).success_rate >= x.success_rate
       THEN <<Head(sorted)>> \o InsertDesc(Tail(sorted), x)
       ELSE <<x>> \o sorted

\* a sort that puts an entry before the entries of equal rate
RECURSIVE SortDescUnstable(_)
SortDescUnstable(q) ==
  IF q = <<>> THEN <<>>
  ELSE InsertDesc(SortDescUnstable(Tail(q)), Head(q))

RECURSIVE SortDesc(_)
SortDesc(q) ==
  IF q = <<>> THEN <<>>
  ELSE InsertDesc(SortDesc(SubSeq(q, 1, Len(q) - 1)), q[Len(q)])

RECURSIVE Sum(_)
Sum(q) == IF q = <<>> THEN 0 ELSE Head(q).success_rate + Sum(Tail(q))

\* providerResults.filter(([_, result]) => !result.error)
RECURSIVE SelectValid(_)
SelectValid(q) ==
  IF q = <<>> THEN <<>>
  ELSE IF Falsy(Head(q).error) THEN <<Head(q)>> \o SelectValid(Tail(q))
  ELSE SelectValid(Tail(q))

\* a summary that does not filter the failed providers out
generateComparisonSummaryOfAll(providerResults) ==
  LET validResults ==
        SortDesc([k \in 1..Len(providerResults) |->
                   [provider |-> providerResults[k].provider,
                    success_rate |->
                      parseFloat(ReplacePercent(providerResults[k].success_rate))]])
  IN IF Len(validResults) > 0
     THEN [best_performer |-> validResults[1].provider,
           performance_ranking |->
             [k \in 1..Len(validResults) |->
                [provider |-> validResults[k].provider,
                 success_rate |->
                   NumberToString(validResults[k].success_rate) \o <<"%">>]],
           average_success_rate |->
             ToFixed1(Sum(validResults), Len(validResults)) \o <<"%">>]
     ELSE [best_performer |-> Null, performance_ranking |-> <<>>,
           average_success_rate |-> <<"0">>]

\* generateComparisonSummary, lines 473-498; the number 0 that
\* average_success_rate keeps when no provider is valid is written <<"0">>
generateComparisonSummary(providerResults) ==
  LET valid == SelectValid(providerResults)
      validResults ==
        SortDesc([k \in 1..Len(valid) |->
                   [provider |-> valid[k].provider,
                    success_rate |-> parseFloat(ReplacePercent(valid[k].success_rate))]])
  IN IF Len(validResults) > 0
     THEN [best_performer |-> validResults[1].provider,
           performance_ranking |->
             [k \in 1..Len(validResults) |->
                [provider |-> validResults[k].provider,
                 success_rate |->
                   NumberToString(validResults[k].success_rate) \o <<"%">>]],
           average_success_rate |->
             ToFixed1(Sum(validResults), Len(validResults)) \o <<"%">>]
     ELSE [best_performer |-> Null, performance_ranking |-> <<>>,
           average_success_rate |-> <<"0">>]

\* the provider tags a comparison may list
ProviderTags == { <<"ollama">>, <<"claude">>, <<"bogus">> }

\* what AgentFactory.createValidatedAgent(provider) may throw, Null standing
\* for the return of an agent, over every setting of the environment
SetupErrors(provider) ==
  {createValidatedAgent(provider, NoOptions, e).threw : e \in Envs}

\* the message of line 437, thrown when testConnection resolves with false
CannotConnect(provider) == <<"Cannot connect to">> \o provider

\* the message of the Error loader.loadBatch throws
LoadError == <<"Failed to load batch">>

\* every message the try block of lines 430-443 may throw for provider
Failures(provider) ==
  (SetupErrors(provider) \ {Null})
    \cup (IF Null \in SetupErrors(provider) THEN {CannotConnect(provider)} ELSE {})

\* compareProviders is called: lines 403-425, the batch loaded and cut to
\* options.limit problems
CompareProviders(tags, ps) ==
  /\ cmpPc = "none"
  /\ cmpPc' = "loop"
  /\ providers' = tags
  /\ cmpProblems' = ps
  /\ pk' = 1
  /\ provider_results' = <<>>
  /\ comparison_summary' = NoSummary
  /\ cmpLog' = <<>>
  /\ cmpEnd' = NoEnd
  /\ UNCHANGED << vars, call, appVars >>

\* loader.loadBatch rejects: lines 467-470, the process exits with status 1
LoadFails ==
  /\ cmpPc = "none"
  /\ cmpPc' = "exited"
  /\ cmpEnd' = [NoEnd EXCEPT !.error = LoadError]
  /\ UNCHANGED << providers, cmpProblems, pk, provider_results,
                  comparison_summary, cmpLog, vars, call, appVars >>

\* a catch block that leaves the loop
ProviderFailsBreaks(message) ==
  /\ cmpPc = "loop"
  /\ pk <= Len(providers)
  /\ provider_results' = Put(provider_results, providers[pk], message, <<"0", "%">>)
  /\ pk' = Len(providers) + 1
  /\ cmpLog' = Append(cmpLog, <<pk, "failed">>)
  /\ UNCHANGED << cmpPc, providers, cmpProblems, comparison_summary, cmpEnd,
                  vars, call, appVars >>

\* createValidatedAgent throws, or testConnection resolves with false and
\* line 437 throws: lines 430-438 and the catch block, lines 447-453
ProviderFails(message) ==
  /\ cmpPc = "loop"
  /\ pk <= Len(providers)
  /\ provider_results' = Put(provider_results, providers[pk], message, <<"0", "%">>)
  /\ pk' = pk + 1
  /\ cmpLog' = Append(cmpLog, <<pk, "failed">>)
  /\ UNCHANGED << cmpPc, providers, cmpProblems, comparison_summary, cmpEnd,
                  vars, call, appVars >>

\* the agent is created and connected, a new Evaluator is made for it and its
\* evaluateBatch is called with the problems: lines 430-440
ProviderStarts ==
  /\ cmpPc = "loop"
  /\ pk <= Len(providers)
  /\ Null \in SetupErrors(providers[pk])
  /\ pc \in {"idle", "returned"}
  /\ cmpPc' = "batch"
  /\ results' = <<>>
  /\ stageLog' = <<>>
  /\ problems' = cmpProblems
  /\ i' = 1
  /\ batchResults' = <<>>
  /\ pc' = "loop"
  /\ report' = NoReport
  /\ outcomeLog' = <<>>
  /\ UNCHANGED << result, stages, ti, testResults, tempFile, child, files,
                  tempPaths, now >>
  /\ UNCHANGED << providers, cmpProblems, pk, provider_results,
                  comparison_summary, cmpLog, cmpEnd, call, appVars >>

\* the batch of the provider starts on its next problem
ProviderEvaluates ==
  /\ cmpPc = "batch"
  /\ EvaluateProblem
  /\ cmpLog' = Append(cmpLog, <<pk, "evaluate">>)
  /\ UNCHANGED << cmpPc, providers, cmpProblems, pk, provider_results,
                  comparison_summary, cmpEnd, call, appVars >>

\* the batch of the provider takes a step
ProviderRuns ==
  /\ cmpPc = "batch"
  /\ RunStep

\* evaluateBatch has returned: lines 440-443, the report of the provider is
\* stored under its tag
ProviderCompletes ==
  /\ cmpPc = "batch"
  /\ pc = "returned"
  /\ provider_results' =
       Put(provider_results, providers[pk], Null,
           generateReport(batchResults).success_rate)
  /\ pk' = pk + 1
  /\ cmpPc' = "loop"
  /\ cmpLog' = Append(cmpLog, <<pk, "completed">>)
  /\ UNCHANGED << providers, cmpProblems, comparison_summary, cmpEnd, vars, call,
                  appVars >>

\* the loop is over: line 457, up to the await of fs.writeFile
Summarize ==
  /\ cmpPc = "loop"
  /\ pk > Len(providers)
  /\ comparison_summary' = generateComparisonSummary(provider_results)
  /\ cmpPc' = "writing"
  /\ UNCHANGED << providers, cmpProblems, pk, provider_results, cmpLog, cmpEnd,
                  vars, call, appVars >>

\* printComparisonSummary(comparisonResults), lines 500-516: what it prints
\* and what it throws. The template of line 515 reads options.output, and no
\* options is in scope of the method: evaluating it throws a ReferenceError
\* before the line is printed
printComparisonSummary(summary) ==
  [printed |-> IF ~Falsy(summary.best_performer)
               THEN <<"Comparison Results", "Best performer",
                      "Average success rate", "Rankings">>
               ELSE <<"Comparison Results">>,
   threw |-> <<"options is not defined">>]

\* the comparison file is written and printComparisonSummary is called: lines
\* 460-465; what it throws is caught at line 467 and the process exits with
\* status 1
WriteSucceeds ==
  /\ cmpPc = "writing"
  /\ cmpEnd' = [written |-> TRUE,
                printed |-> printComparisonSummary(comparison_summary).printed,
                error |-> printComparisonSummary(comparison_summary).threw]
  /\ cmpPc' = IF printComparisonSummary(comparison_summary).threw = Null
              THEN "done" ELSE "exited"
  /\ UNCHANGED << providers, cmpProblems, pk, provider_results,
                  comparison_summary, cmpLog, vars, call, appVars >>

\* ensureDirectory or fs.writeFile rejects: lines 467-470
WriteFails ==
  /\ cmpPc = "writing"
  /\ cmpPc' = "exited"
  /\ cmpEnd' = [NoEnd EXCEPT !.error = WriteError]
  /\ UNCHANGED << providers, cmpProblems, pk, provider_results,
                  comparison_summary, cmpLog, vars, call, appVars >>

\* one comparison of up to MaxProviders listed providers on a batch of at most
\* one problem
NextCompare ==
  \/ \E tags \in SeqsUpTo(ProviderTags, MaxProviders) \ {<<>>},
        ps \in SeqsUpTo(Pool, 1) : CompareProviders(tags, ps)
  \/ LoadFails
  \/ /\ cmpPc = "loop" /\ pk <= Len(providers)
     /\ \E message \in Failures(providers[pk]) : ProviderFails(message)
  \/ ProviderStarts
  \/ ProviderEvaluates
  \/ ProviderRuns
  \/ ProviderCompletes
  \/ Summarize
  \/ WriteSucceeds
  \/ WriteFails

SpecCompare == Init /\ [][NextCompare]_allvars

\* ---------------------------------- generateComparisonSummary on its own
\* success rates generateReport writes and the catch block's "0%"
SomeRates ==
  { <<"0", "%">>, <<"0", ".", "0", "0", "%">>, <<"3", "3", ".", "3", "3", "%">>,
    <<"5", "0", ".", "0", "0", "%">>, <<"6", "6", ".", "6", "7", "%">>,
    <<"1", "0", "0", ".", "0", "0", "%">> }

\* the entries provider_results may hold for provider
SomeEntries(provider) ==
  {Entry(provider, Null, rate) : rate \in SomeRates \ {<<"0", "%">>}}
    \cup {Entry(provider, message, <<"0", "%">>) : message \in Failures(provider)}
    \cup (IF Null \in SetupErrors(provider)
          THEN {Entry(provider, Null, <<"0", "%">>)} ELSE {})

\* provider_results objects with up to MaxProviders keys
SomeProviderResults ==
  {q \in SeqsUpTo(UNION {SomeEntries(provider) : provider \in ProviderTags},
                  MaxProviders) :
     \A j \in 1..Len(q), k \in 1..Len(q) : j # k => q[j].provider # q[k].provider}

InitSummary ==
  /\ EvaluatorInit
  /\ CompareIdle
  /\ AppIdle
  /\ call \in {[op |-> "generateComparisonSummary", arg |-> q, ret |-> NoSummary,
                done |-> FALSE] : q \in SomeProviderResults}

\* generateComparisonSummary(providerResults) runs and returns, lines 473-498
GenerateComparisonSummary ==
  /\ call.op = "generateComparisonSummary"
  /\ ~call.done
  /\ call' = [call EXCEPT !.ret = generateComparisonSummary(call.arg), !.done = TRUE]
  /\ UNCHANGED << vars, compareVars, appVars >>

NextSummary == GenerateComparisonSummary

SpecSummary == InitSummary /\ [][NextSummary]_allvars

\* ------------------------------------------- extractFixedCode on its own
\* pieces of an answer of the model: prose, fenced blocks with and without the
\* FIXED_CODE: label and with several language tags, statement lines, an
\* indented line, a label without a block, a fence that is never closed
Chunks ==
  { <<"w", "SP", "w">>,
    <<"FIXED_CODE:", "NL", "FENCE", "python", "NL", "a", "NL", "FENCE">>,
    <<"fixed_code:", "SP", "FENCE", "Python", "NL", "g", "NL", "FENCE">>,
    <<"FIXED_CODE:", "SP", "FENCE", "js", "NL", "j", "NL", "FENCE">>,
    <<"FIXED_CODE:", "SP", "w">>,
    <<"FENCE", "python", "NL", "b", "NL", "FENCE">>,
    <<"FENCE", "python", "NL", "FENCE">>,
    <<"FENCE", "Python", "NL", "h", "NL", "FENCE">>,
    <<"FENCE", "js", "NL", "c", "NL", "FENCE">>,
    <<"FENCE", "NL", "d", "NL", "FENCE">>,
    <<"def", "SP", "e">>,
    <<"SP", "SP", "import", "SP", "m">>,
    <<"SP", "SP", "return", "SP", "f">>,
    <<"FENCE", "python", "NL", "k">> }

\* the chunks of cs, one after the other, as lines of one text
RECURSIVE Join(_)
Join(cs) ==
  IF cs = <<>> THEN <<>>
  ELSE IF Len(cs) = 1 THEN cs[1]
  ELSE cs[1] \o <<"NL">> \o Join(Tail(cs))

\* the analysis texts extractFixedCode is called with
Texts == {Join(cs) : cs \in SeqsUpTo(Chunks, MaxChunks)}

InitExtract ==
  /\ EvaluatorInit
  /\ call \in {[op |-> "extractFixedCode", arg |-> text, ret |-> Null,
                done |-> FALSE] : text \in Texts}
  /\ CompareIdle
  /\ AppIdle

\* extractFixedCode(analysis) runs and returns, lines 105-133
ExtractFixedCode ==
  /\ call.op = "extractFixedCode"
  /\ ~call.done
  /\ call' = [call EXCEPT !.ret = extractFixedCode(call.arg), !.done = TRUE]
  /\ UNCHANGED << vars, compareVars, appVars >>

NextExtract == ExtractFixedCode

SpecExtract == InitExtract /\ [][NextExtract]_allvars

\* --------------------------------------------- generateReport on its own
\* results as evaluateProblem leaves them: solved, failed with a recorded error,
\* failed because no test passed
SomeResults ==
  { [NoResult EXCEPT !.success = TRUE],
    [NoResult EXCEPT !.error = SyntaxError],
    [NoResult EXCEPT !.generated_fix = <<"def", "SP", "w">>] }

InitReport ==
  /\ EvaluatorInit
  /\ call \in {[op |-> "generateReport", arg |-> rs, ret |-> NoReport,
                done |-> FALSE] : rs \in SeqsUpTo(SomeResults, MaxResults)}
  /\ CompareIdle
  /\ AppIdle

\* generateReport(results) runs and returns, lines 268-295
GenerateReportOf ==
  /\ call.op = "generateReport"
  /\ ~call.done
  /\ call' = [call EXCEPT !.ret = generateReport(call.arg), !.done = TRUE]
  /\ UNCHANGED << vars, compareVars, appVars >>

NextReport == GenerateReportOf

SpecReport == InitReport /\ [][NextReport]_allvars

\* ------------------------------------- createValidatedAgent on its own
\* provider tags as a command line may spell them
SomeProviders ==
  { <<"ollama">>, <<"openai">>, <<"OpenAI">>, <<"gemini">>, <<"claude">>,
    <<"CLAUDE">>, <<"bogus">> }

\* the --model option: absent, empty, on some allow-list, on none
SomeModels ==
  { Null, <<>>, <<"llama3:8b">>, <<"gpt-4">>, <<"gpt-4o">>, <<"gemini-pro">>,
    <<"claude-3-opus-20240229">>, <<"gpt-5">> }

SomeOptions == [model : SomeModels, apiKey : {Null, <<"sk-option">>}]

InitFactory ==
  /\ EvaluatorInit
  /\ call \in {[op |-> "createValidatedAgent",
                arg |-> [provider |-> provider, options |-> options, env |-> e],
                ret |-> Threw(Null, <<>>), done |-> FALSE] :
                 provider \in SomeProviders, options \in SomeOptions, e \in Envs}
  /\ CompareIdle
  /\ AppIdle

\* createValidatedAgent(provider, options) runs and returns or throws,
\* lines 145-165
CreateValidatedAgent ==
  /\ call.op = "createValidatedAgent"
  /\ ~call.done
  /\ call' = [call EXCEPT
                !.ret = createValidatedAgent(call.arg.provider, call.arg.options,
                                             call.arg.env),
                !.done = TRUE]
  /\ UNCHANGED << vars, compareVars, appVars >>

NextFactory == CreateValidatedAgent

SpecFactory == InitFactory /\ [][NextFactory]_allvars

\* ------------------------------------------------------------ the agents
Variants == {"ollama", "openai", "gemini", "claude"}

\* options.temperature || 0.1: the number 0 is falsy as undefined is
TemperatureOrDefault(temperature) ==
  IF temperature \in {Undefined, "0"} THEN "0.1" ELSE temperature

\* options.max_tokens || 2048; the request of OllamaAgent has no such field
MaxTokensOrDefault(variant, max_tokens) ==
  IF variant = "ollama" THEN Undefined
  ELSE IF max_tokens \in {Undefined, "0"} THEN "2048" ELSE max_tokens

\* the requestBody generate builds for the agent self, called by caller with
\* options: lines 21-30 of OllamaAgent, 219-230 of OpenAIAgent, 25-38 of
\* GeminiAgent, 26-36 of ClaudeAgent
requestBody(self, caller, options) ==
  [variant |-> self.variant, model |-> self.model, caller |-> caller,
   temperature |-> TemperatureOrDefault(options.temperature),
   max_tokens |-> MaxTokensOrDefault(self.variant, options.max_tokens)]

\* the options testConnection, analyzeCode and generatePatch pass to generate
MethodOptions(variant, caller) ==
  CASE caller = "testConnection" ->
         [temperature |-> "0",
          max_tokens |-> IF variant \in {"openai", "claude"} THEN "10" ELSE Undefined]
    [] caller = "analyzeCode" -> [temperature |-> "0.1", max_tokens |-> Undefined]
    [] caller = "generatePatch" -> [temperature |-> "0", max_tokens |-> Undefined]

\* options a caller of generate itself may pass
SomeGenerateOptions ==
  [temperature : {Undefined, "0", "0.7"}, max_tokens : {Undefined}]

\* the body of a response as the end handler sees it: whether JSON.parse
\* accepts it, its error member, whether the object that holds the text is
\* there (choices[0].message, candidates[0].content, content[0]), whether
\* that object has parts (Gemini), and the text (Null when there is none)
Envelope(parses, error, holder, parts, text) ==
  [parses |-> parses, error |-> error, holder |-> holder, parts |-> parts,
   text |-> text]

NotJson == Envelope(FALSE, Null, FALSE, FALSE, Null)
ErrorEnvelope == Envelope(TRUE, <<"overloaded">>, FALSE, FALSE, Null)
TextEnvelope(text) == Envelope(TRUE, Null, TRUE, TRUE, text)
EmptyEnvelope == Envelope(TRUE, Null, FALSE, FALSE, Null)

\* the response bodies a provider may send
SomeEnvelopes ==
  { NotJson, ErrorEnvelope, EmptyEnvelope, TextEnvelope(<<"w">>),
    TextEnvelope(<<>>), TextEnvelope(Null),
    Envelope(TRUE, Null, TRUE, FALSE, Null) }

\* the end handler of OllamaAgent.generate, lines 55-66
OllamaOnEnd(body) ==
  IF ~body.parses THEN Rejected(<<"Failed to parse Ollama response">>)
  ELSE IF ~Falsy(body.error)
       THEN Rejected(<<"Ollama API error", ":">> \o body.error)
       ELSE Fulfilled(OrElse(body.text, <<>>))

\* the end handler of OpenAIAgent.generate, lines 256-271
OpenAIOnEnd(body) ==
  IF ~body.parses THEN Rejected(<<"Failed to parse OpenAI response">>)
  ELSE IF ~Falsy(body.error)
       THEN Rejected(<<"OpenAI API error", ":">> \o body.error)
       ELSE IF body.holder THEN Fulfilled(OrElse(body.text, <<>>))
       ELSE Rejected(<<"Invalid response format from OpenAI API">>)

\* the end handler of GeminiAgent.generate, lines 62-77: parts[0] of a content
\* without parts throws inside the try block
GeminiOnEnd(body) ==
  IF ~body.parses THEN Rejected(<<"Failed to parse Gemini response">>)
  ELSE IF ~Falsy(body.error)
       THEN Rejected(<<"Gemini API error", ":">> \o body.error)
       ELSE IF body.holder
            THEN IF body.parts THEN Fulfilled(OrElse(body.text, <<>>))
                 ELSE Rejected(<<"Failed to parse Gemini response">>)
            ELSE Rejected(<<"Invalid response format from Gemini API">>)

\* the end handler of ClaudeAgent.generate, lines 63-78: the text is part of
\* the condition
ClaudeOnEnd(body) ==
  IF ~body.parses THEN Rejected(<<"Failed to parse Claude response">>)
  ELSE IF ~Falsy(body.error)
       THEN Rejected(<<"Claude API error", ":">> \o body.error)
       ELSE IF body.holder /\ ~Falsy(body.text) THEN Fulfilled(body.text)
       ELSE Rejected(<<"Invalid response format from Claude API">>)

OnEnd(variant, body) ==
  CASE variant = "ollama" -> OllamaOnEnd(body)
    [] variant = "openai" -> OpenAIOnEnd(body)
    [] variant = "gemini" -> GeminiOnEnd(body)
    [] variant = "claude" -> ClaudeOnEnd(body)

\* the error handler of the request: reject(new Error('Request failed: ...'))
OnError(cause) == Rejected(<<"Request failed", ":">> \o cause)

\* the timeout handler: reject(new Error('Request timeout after ...ms'))
OnTimeout == Rejected(<<"Request timeout after", "60000", "ms">>)

\* what the request emits when the connection fails, and when it is destroyed
ConnectionRefused == <<"connect ECONNREFUSED">>
SocketHangUp == <<"socket hang up">>

\* a promise whose last resolve or reject call wins
SettleLast(p, outcome) == outcome

\* resolve or reject called on the promise p: only the first call settles it
Settle(p, outcome) == IF p.state = "pending" THEN outcome ELSE p

\* generate of the agent self is entered by caller with options and runs to the end of its
\* promise executor: one request is written and ended
StartGenerate(self, caller, options) ==
  /\ method' = caller
  /\ requests' = Append(requests, requestBody(self, caller, options))
  /\ req' = "open"
  /\ promise' = Pending
  /\ events' = <<>>
  /\ returned' = NotReturned

\* a method of the agent is called while none is running
CallMethod(caller, options) ==
  /\ agent # NoAgent
  /\ runPc = "none"
  /\ method = "none"
  /\ Len(requests) < MaxCalls
  /\ StartGenerate(agent, caller, options)
  /\ UNCHANGED << env, agent, runVars >>

\* the response has ended with body: the end handler, and the request is over
ResponseEnds(body) ==
  /\ req = "open"
  /\ promise' = Settle(promise, OnEnd(agent.variant, body))
  /\ events' = Append(events, <<"end", body>>)
  /\ req' = "closed"
  /\ UNCHANGED << env, agent, method, requests, returned, runVars >>

\* the request emits error: the error handler, lines 69-71
RequestErrors ==
  /\ req = "open"
  /\ promise' = Settle(promise, OnError(ConnectionRefused))
  /\ events' = Append(events, <<"error", ConnectionRefused>>)
  /\ req' = "closed"
  /\ UNCHANGED << env, agent, method, requests, returned, runVars >>

\* the request emits timeout: the timeout handler destroys the request and
\* rejects, lines 73-76
RequestTimesOut ==
  /\ req = "open"
  /\ promise' = Settle(promise, OnTimeout)
  /\ events' = Append(events, <<"timeout">>)
  /\ req' = "destroyed"
  /\ UNCHANGED << env, agent, method, requests, returned, runVars >>

\* the destroyed request emits error: the error handler runs once more
DestroyedRequestErrors ==
  /\ req = "destroyed"
  /\ promise' = Settle(promise, OnError(SocketHangUp))
  /\ events' = Append(events, <<"error", SocketHangUp>>)
  /\ req' = "closed"
  /\ UNCHANGED << env, agent, method, requests, returned, runVars >>

\* what the caller of the running method gets once the promise of generate
\* is settled: generate, analyzeCode and generatePatch pass the text on or
\* throw the rejection; testConnection catches it
ReturnValue(caller, p) ==
  IF caller = "testConnection"
  THEN [done |-> TRUE, threw |-> FALSE,
        value |-> IF p.state = "fulfilled" /\ Len(p.value) > 0
                  THEN <<"true">> ELSE <<"false">>]
  ELSE [done |-> TRUE, threw |-> p.state = "rejected", value |-> p.value]

\* a testConnection without its try block
MethodReturnsUncaught ==
  /\ method # "none"
  /\ promise.state # "pending"
  /\ ~returned.done
  /\ returned' = ReturnValue("generate", promise)
  /\ UNCHANGED << env, agent, method, requests, req, promise, events, runVars >>

\* the await of the running method resumes: testConnection lines 87-95,
\* analyzeCode line 129, generatePatch line 160
MethodReturns ==
  /\ method # "none"
  /\ promise.state # "pending"
  /\ ~returned.done
  /\ returned' = ReturnValue(method, promise)
  /\ UNCHANGED << env, agent, method, requests, req, promise, events, runVars >>

\* the caller has its answer and the request is over: the agent is free again
CallEnds ==
  /\ runPc = "none"
  /\ method # "none"
  /\ returned.done
  /\ req = "closed"
  /\ method' = "none"
  /\ req' = "none"
  /\ UNCHANGED << env, agent, requests, promise, events, returned, runVars >>

\* createValidatedAgent(provider, options) returns an agent
NewAgent(provider, options) ==
  /\ runPc = "none"
  /\ agent = NoAgent
  /\ createValidatedAgent(provider, options, env).threw = Null
  /\ agent' = createValidatedAgent(provider, options, env).agent
  /\ UNCHANGED << env, method, requests, req, promise, events, returned, runVars >>

AgentOthers == UNCHANGED << vars, call, compareVars, webVars >>

\* an environment in which every key is set
SetEnv == [name \in EnvNames |-> <<"sk">>]

InitAgent ==
  /\ EvaluatorInit
  /\ call = NoCall
  /\ CompareIdle
  /\ env = SetEnv
  /\ AgentIdle
  /\ RunIdle
  /\ service = "memory" /\ TodosIdle /\ MaintenanceIdle

\* one agent and up to MaxCalls calls of its methods
NextAgent ==
  \/ \E provider \in SupportedProviders, model \in {Null, <<"gpt-4o">>} :
       NewAgent(provider, [model |-> model, apiKey |-> Null]) /\ AgentOthers
  \/ \E caller \in {"testConnection", "analyzeCode", "generatePatch"} :
       /\ agent # NoAgent
       /\ CallMethod(caller, MethodOptions(agent.variant, caller))
       /\ AgentOthers
  \/ \E options \in SomeGenerateOptions : CallMethod("generate", options) /\ AgentOthers
  \/ /\ req = "open"
     /\ \E body \in SomeEnvelopes : ResponseEnds(body) /\ AgentOthers
  \/ RequestErrors /\ AgentOthers
  \/ RequestTimesOut /\ AgentOthers
  \/ DestroyedRequestErrors /\ AgentOthers
  \/ MethodReturns /\ AgentOthers
  \/ CallEnds /\ AgentOthers

SpecAgent == InitAgent /\ [][NextAgent]_allvars

\* ------------------------------------------ generate of every variant
\* what the remote side does with one request: it answers with a body, the
\* connection fails, or nothing arrives until the timeout
Response(body) == [kind |-> "response", body |-> body]
NetworkFailure == [kind |-> "network", body |-> NotJson]
Timeout == [kind |-> "timeout", body |-> NotJson]

\* texts a provider may generate
SomeTexts ==
  AgentAnalyses \cup AgentPatches \cup { <<>>, <<"w">>, <<"ok", "SP", "w">> }

\* response bodies: a text is held by an object that has parts
MoreEnvelopes ==
  { Envelope(parses, error, FALSE, FALSE, Null) :
      parses \in BOOLEAN, error \in {Null, <<>>, <<"overloaded">>} }
  \cup { Envelope(parses, error, TRUE, FALSE, Null) :
      parses \in BOOLEAN, error \in {Null, <<>>, <<"overloaded">>} }
  \cup { Envelope(parses, error, TRUE, TRUE, text) :
      parses \in BOOLEAN, error \in {Null, <<>>, <<"overloaded">>},
      text \in SomeTexts \cup {Null} }

RemoteOutcomes ==
  {Response(body) : body \in MoreEnvelopes} \cup {NetworkFailure, Timeout}

\* the promise of generate of a variant after the events of the remote
\* outcome: the end handler, the error handler, or the timeout handler
\* followed by the error handler of the destroyed request
generate(variant, remote) ==
  CASE remote.kind = "response" -> Settle(Pending, OnEnd(variant, remote.body))
    [] remote.kind = "network" -> Settle(Pending, OnError(ConnectionRefused))
    [] remote.kind = "timeout" ->
         Settle(Settle(Pending, OnTimeout), OnError(SocketHangUp))

InitOutcome ==
  /\ EvaluatorInit
  /\ call \in {[op |-> "generate", arg |-> remote,
                ret |-> [variant \in Variants |-> Pending], done |-> FALSE] :
                 remote \in RemoteOutcomes}
  /\ CompareIdle
  /\ AppIdle

\* generate of each variant meets the same remote outcome
GenerateOfEach ==
  /\ call.op = "generate"
  /\ ~call.done
  /\ call' = [call EXCEPT
                !.ret = [variant \in Variants |-> generate(variant, call.arg)],
                !.done = TRUE]
  /\ UNCHANGED << vars, compareVars, appVars >>

NextOutcome == GenerateOfEach

SpecOutcome == InitOutcome /\ [][NextOutcome]_allvars

\* ------------------------------------- the evaluate and batch commands
\* evaluateSingle (lines 262-301) or evaluateBatch (lines 303-358) is called
\* and runs to its first await: createValidatedAgent either throws, which the
\* catch block answers with process.exit(1), or returns the agent, whose
\* testConnection is called
RunCommand(cmd, provider, model) ==
  LET created == createValidatedAgent(provider, [model |-> model, apiKey |-> Null], env)
  IN /\ runPc = "none"
     /\ agent = NoAgent
     /\ command' = cmd
     /\ IF created.threw # Null
        THEN /\ runPc' = "exited"
             /\ UNCHANGED << agent, method, requests, req, promise, events, returned >>
        ELSE /\ runPc' = "probe"
             /\ agent' = created.agent
             /\ StartGenerate(created.agent, "testConnection",
                              MethodOptions(created.agent.variant, "testConnection"))
     /\ UNCHANGED << env, connected >>
     /\ UNCHANGED << vars, call, compareVars, webVars >>

\* a command that goes on whatever testConnection answered
RunProbedIgnored ==
  /\ runPc = "probe"
  /\ returned.done
  /\ connected' = returned.value
  /\ runPc' = "load"
  /\ method' = "none"
  /\ UNCHANGED << env, agent, requests, req, promise, events, returned, command >>
  /\ UNCHANGED << vars, call, compareVars, webVars >>

\* testConnection has resolved: lines 280-284 and 321-325; a false answer
\* throws, and the catch block exits
RunProbed ==
  /\ runPc = "probe"
  /\ returned.done
  /\ connected' = returned.value
  /\ runPc' = IF returned.value = <<"true">> THEN "load" ELSE "exited"
  /\ method' = "none"
  /\ UNCHANGED << env, agent, requests, req, promise, events, returned, command >>
  /\ UNCHANGED << vars, call, compareVars, webVars >>

\* loader.loadProblem or loader.loadBatch rejects: the catch block exits
RunLoadFails ==
  /\ runPc = "load"
  /\ runPc' = "exited"
  /\ UNCHANGED << agentVars, command, connected, vars, call, compareVars, webVars >>

\* the problems are loaded and the new Evaluator starts on them: lines
\* 287-288, one evaluateProblem call, and lines 328-345, evaluateBatch
RunEvaluates(ps) ==
  /\ runPc = "load"
  /\ command = "evaluate" => Len(ps) = 1
  /\ pc = "idle"
  /\ runPc' = "evaluate"
  /\ results' = <<>>
  /\ stageLog' = <<>>
  /\ problems' = ps
  /\ i' = 1
  /\ batchResults' = <<>>
  /\ pc' = "loop"
  /\ report' = NoReport
  /\ outcomeLog' = <<>>
  /\ UNCHANGED << result, stages, ti, testResults, tempFile, child, files,
                  tempPaths, now >>
  /\ UNCHANGED << agentVars, command, connected, call, compareVars, webVars >>

\* evaluateProblem is called on the next problem
RunProblem ==
  /\ runPc = "evaluate"
  /\ EvaluateProblem
  /\ Others

\* the evaluation takes a step
RunRuns ==
  /\ runPc = "evaluate"
  /\ RunStep

\* the results are there, the report is saved and the summary printed:
\* lines 291-295 and 348-352
RunSaves ==
  /\ runPc = "evaluate"
  /\ pc = "returned"
  /\ runPc' = "done"
  /\ UNCHANGED << agentVars, command, connected, vars, call, compareVars, webVars >>

\* ensureDirectory or saveReport rejects: the catch block exits
RunSaveFails ==
  /\ runPc = "evaluate"
  /\ pc = "returned"
  /\ runPc' = "exited"
  /\ UNCHANGED << agentVars, command, connected, vars, call, compareVars, webVars >>

InitRun ==
  /\ EvaluatorInit
  /\ call = NoCall
  /\ CompareIdle
  /\ env \in {UnsetEnv, SetEnv}
  /\ AgentIdle
  /\ RunIdle
  /\ service = "memory" /\ TodosIdle /\ MaintenanceIdle

\* one evaluate or batch command on at most one problem
NextRun ==
  \/ \E cmd \in {"evaluate", "batch"}, provider \in SomeProviders,
        model \in {Null, <<"gpt-4">>, <<"gpt-5">>} :
       RunCommand(cmd, provider, model)
  \/ /\ req = "open"
     /\ \E body \in SomeEnvelopes : ResponseEnds(body) /\ AgentOthers
  \/ RequestErrors /\ AgentOthers
  \/ RequestTimesOut /\ AgentOthers
  \/ DestroyedRequestErrors /\ AgentOthers
  \/ MethodReturns /\ AgentOthers
  \/ RunProbed
  \/ RunLoadFails
  \/ \E ps \in SeqsUpTo(Pool, 1) : RunEvaluates(ps)
  \/ RunProblem
  \/ RunRuns
  \/ RunSaves
  \/ RunSaveFails

SpecRun == InitRun /\ [][NextRun]_allvars

\* ------------------------------------------------------------ TodosService
\* the ids a request may name: 0 is never generated
TodoIds == 0..MaxTodos

NotFoundException == "NotFoundException"

\* what a CreateTodoDto and an UpdateTodoDto may hold
SomeTitles == {"a"}
UpdateDtos ==
  { [title |-> "b", status |-> Undefined], [title |-> Undefined, status |-> "DONE"] }

\* the index of the first todo of list with this id, 0 when there is none:
\* this.todos.find(todo => todo.id === id), todosRepository.findOneBy({ id })
Find(list, id) ==
  IF \E k \in 1..Len(list) : list[k].id = id
  THEN Min({k \in 1..Len(list) : list[k].id = id})
  ELSE 0

\* findOne(id) on the stored todos: lines 27-33 of the in-memory service and
\* lines 27-34 of the repository service
findOne(list, id) ==
  IF Find(list, id) = 0
  THEN [threw |-> NotFoundException, ret |-> NoTodo]
  ELSE [threw |-> "none", ret |-> list[Find(list, id)]]

\* this.todos.filter(todo => todo.id !== id), and the rows DELETE leaves
Without(list, id) == SelectSeq(list, LAMBDA todo : todo.id # id)

\* Object.assign(todo, updateTodoDto)
Assign(todo, dto) ==
  [id |-> todo.id,
   title |-> IF dto.title = Undefined THEN todo.title ELSE dto.title,
   status |-> IF dto.status = Undefined THEN todo.status ELSE dto.status]

\* todosRepository.save(entity): the row with the id of the entity is
\* replaced, and inserted when there is none
Save(list, entity) ==
  IF Find(list, entity.id) = 0 THEN Append(list, entity)
  ELSE [list EXCEPT ![Find(list, entity.id)] = entity]

\* remove(id) of the in-memory service, lines 41-44: what it throws and the
\* todos it leaves
removeInMemory(list, id) ==
  IF findOne(list, id).threw # "none"
  THEN [threw |-> NotFoundException, todos |-> list]
  ELSE [threw |-> "none", todos |-> Without(list, findOne(list, id).ret.id)]

\* a remove that does not look at result.affected
removeInRepositoryUnchecked(list, id) ==
  [threw |-> "none", todos |-> Without(list, id)]

\* remove(id) of the repository service, lines 44-51: the rows are deleted
\* and result.affected is their number
removeInRepository(list, id) ==
  LET affected == Len(list) - Len(Without(list, id)) IN
  IF affected = 0
  THEN [threw |-> NotFoundException, todos |-> Without(list, id)]
  ELSE [threw |-> "none", todos |-> Without(list, id)]

\* create(createTodoDto): lines 11-21 and 16-21, the id generated
Create(title) ==
  /\ nextId <= MaxTodos
  /\ todos' = Append(todos, [id |-> nextId, title |-> title, status |-> "OPEN"])
  /\ nextId' = nextId + 1
  /\ todoCall' = [op |-> "create", id |-> nextId, threw |-> "none",
                  ret |-> [id |-> nextId, title |-> title, status |-> "OPEN"]]
  /\ UNCHANGED << service, inflight >>

\* findOne(id)
FindOne(id) ==
  /\ todoCall' = [op |-> "findOne", id |-> id, threw |-> findOne(todos, id).threw,
                  ret |-> findOne(todos, id).ret]
  /\ UNCHANGED << service, todos, nextId, inflight >>

\* update(id, updateTodoDto) of the in-memory service, lines 35-39
Update(id, dto) ==
  /\ service = "memory"
  /\ IF findOne(todos, id).threw # "none"
     THEN /\ todoCall' = [op |-> "update", id |-> id, threw |-> NotFoundException,
                          ret |-> NoTodo]
          /\ UNCHANGED todos
     ELSE /\ todos' = [todos EXCEPT ![Find(todos, id)] = Assign(todos[Find(todos, id)], dto)]
          /\ todoCall' = [op |-> "update", id |-> id, threw |-> "none",
                          ret |-> Assign(todos[Find(todos, id)], dto)]
  /\ UNCHANGED << service, nextId, inflight >>

\* update(id, updateTodoDto) of the repository service up to its second
\* await, lines 36-39: findOne throws, or the entity found is changed and
\* handed to save
UpdateFinds(id, dto) ==
  /\ service = "repository"
  /\ inflight = NoTodo
  /\ IF findOne(todos, id).threw # "none"
     THEN /\ todoCall' = [op |-> "update", id |-> id, threw |-> NotFoundException,
                          ret |-> NoTodo]
          /\ UNCHANGED inflight
     ELSE /\ inflight' = Assign(findOne(todos, id).ret, dto)
          /\ UNCHANGED todoCall
  /\ UNCHANGED << service, todos, nextId >>

\* the save of the update call resolves, lines 39-41
UpdateSaves ==
  /\ service = "repository"
  /\ inflight # NoTodo
  /\ todos' = Save(todos, inflight)
  /\ todoCall' = [op |-> "update", id |-> inflight.id, threw |-> "none",
                  ret |-> inflight]
  /\ inflight' = NoTodo
  /\ UNCHANGED << service, nextId >>

\* remove(id)
Remove(id) ==
  LET removed == IF service = "memory" THEN removeInMemory(todos, id)
                 ELSE removeInRepository(todos, id)
  IN /\ todos' = removed.todos
     /\ todoCall' = [op |-> "remove", id |-> id, threw |-> removed.threw,
                     ret |-> NoTodo]
     /\ UNCHANGED << service, nextId, inflight >>

TodosOthers == UNCHANGED << vars, call, compareVars, agentVars, runVars, maintVars >>

InitTodos ==
  /\ EvaluatorInit
  /\ call = NoCall
  /\ CompareIdle
  /\ env = UnsetEnv /\ AgentIdle /\ RunIdle
  /\ service \in {"memory", "repository"}
  /\ TodosIdle
  /\ MaintenanceIdle

\* calls on one TodosService that creates at most MaxTodos todos
NextTodos ==
  \/ \E title \in SomeTitles : Create(title) /\ TodosOthers
  \/ \E id \in TodoIds : FindOne(id) /\ TodosOthers
  \/ \E id \in TodoIds, dto \in UpdateDtos : Update(id, dto) /\ TodosOthers
  \/ \E id \in TodoIds, dto \in UpdateDtos : UpdateFinds(id, dto) /\ TodosOthers
  \/ UpdateSaves /\ TodosOthers
  \/ \E id \in TodoIds : Remove(id) /\ TodosOthers

SpecTodos == InitTodos /\ [][NextTodos]_allvars

\* ------------------------------------------------- maintenance mode
\* the requests that may arrive
SomeRequests == [method : {"GET", "POST"}, path : {"/up", "/down", "/", "/todos"}]

\* a guard that lets only the switch-off route through in maintenance mode
canActivateUpOnly(path, enabled) == path = "/up" \/ ~enabled

\* MaintenanceGuard.canActivate, lines 8-22: TRUE when it returns true, FALSE
\* when it throws ServiceUnavailableException
canActivate(path, enabled) ==
  IF path = "/up" \/ path = "/down" THEN TRUE
  ELSE IF enabled THEN FALSE
  ELSE TRUE

\* isEnabled after the handler of an admitted request has run:
\* MaintenanceController, POST down calls enable() and POST up disable();
\* no other route touches MaintenanceService
AfterHandler(request, enabled) ==
  IF request.method = "POST" /\ request.path = "/down" THEN TRUE
  ELSE IF request.method = "POST" /\ request.path = "/up" THEN FALSE
  ELSE enabled

\* a request arrives: the global guard decides, and the handler of an
\* admitted request runs
HandleRequest(request) ==
  /\ Len(handled) < MaxRequests
  /\ handled' = Append(handled, [request |-> request,
                                 admitted |-> canActivate(request.path, isEnabled)])
  /\ isEnabled' = IF canActivate(request.path, isEnabled)
                  THEN AfterHandler(request, isEnabled)
                  ELSE isEnabled

MaintenanceOthers ==
  UNCHANGED << vars, call, compareVars, agentVars, runVars, todosVars >>

\* up to MaxRequests requests to one backend
NextMaintenance ==
  \E request \in SomeRequests : HandleRequest(request) /\ MaintenanceOthers

SpecMaintenance == Init /\ [][NextMaintenance]_allvars

\* ------------------------------------------------------------ claims
ProblemOf(id) == CHOOSE problem \in Pool \cup DeepPool : problem.id = id
NumTests(r) == Len(ProblemOf(r.problem_id).test_cases)
SomePassed(r) == \E k \in 1..Len(r.test_results) : r.test_results[k].passed
IsPrefix(a, b) == Len(a) <= Len(b) /\ SubSeq(b, 1, Len(a)) = a
Last(q) == q[Len(q)]
\* the stages of a run in which nothing fails, for a problem with n test cases
AllStages(n) ==
  <<"analyze", "extract", "patch", "syntax">> \o [k \in 1..n |-> "test"] \o <<"verdict">>
InProblem == {"analyze_wait", "patch_wait", "syntax_wait", "test_loop", "test_wait"}

\* C1: every result of evaluateProblem has success = TRUE exactly when no error
\* was recorded, the extracted fix is non-empty, and the problem has no test
\* cases or at least one of its TestResults passed.
C1_SuccessIff ==
  \A k \in 1..Len(results) :
    LET r == results[k] IN
    r.success <=> /\ r.error = Null
                  /\ ~Falsy(r.generated_fix)
                  /\ (NumTests(r) = 0 \/ SomePassed(r))

C1_Witness ==
  \E k \in 1..Len(results) :
    /\ results[k].success
    /\ Len(results[k].test_results) >= 2
    /\ \E t \in 1..Len(results[k].test_results) : ~results[k].test_results[t].passed

\* C2: the stages of evaluateProblem start in the order analyze, extract,
\* patch, syntax check, tests, verdict; a run that stops before the verdict has
\* success = FALSE and a recorded error, and it stops at the stage that failed:
\* nothing is started after a failed agent call, extraction or syntax check.
C2_FailFast ==
  \A k \in 1..Len(results) :
    LET r == results[k]
        started == stageLog[k]
    IN /\ IsPrefix(started, AllStages(NumTests(r)))
       /\ (started # AllStages(NumTests(r))) <=> (r.error # Null)
       /\ r.error # Null => ~r.success
       /\ r.error = ExtractionError => started = <<"analyze", "extract">>
       /\ r.error = SyntaxError => started = <<"analyze", "extract", "patch", "syntax">>
       /\ r.error \in {ProviderError, TransportError, TimeoutError} =>
            started = IF r.analysis = Null THEN <<"analyze">>
                      ELSE <<"analyze", "extract", "patch">>

C2_Witness ==
  /\ Len(results) = 1
  /\ results[1].error = SyntaxError
  /\ NumTests(results[1]) >= 2
  /\ results[1].test_results = <<>>

\* C3: every result with success = FALSE carries a non-null error.
C3_FailureHasError ==
  \A k \in 1..Len(results) : ~results[k].success => results[k].error # Null

\* C4: evaluateBatch returns one result per problem, in the order of the
\* problems: the returned list is as long as the input and its k-th entry has the
\* id of the k-th problem.
C4_BatchOrder ==
  pc = "returned" =>
    /\ Len(batchResults) = Len(problems)
    /\ \A k \in 1..Len(problems) : batchResults[k].problem_id = problems[k].id

C4_Witness ==
  /\ pc = "returned"
  /\ Len(problems) = 2
  /\ problems[1].id # problems[2].id
  /\ batchResults[1].error # Null
  /\ batchResults[2].success

\* C5: whenever evaluateProblem ends, whatever failed, it has returned a result
\* for its problem and that result is the one entry added to Evaluator.results;
\* no step removes or reorders entries of Evaluator.results, and generateReport
\* leaves the list alone.
C5_AppendOnly ==
  /\ [][(pc \in InProblem /\ pc' \notin InProblem) =>
          /\ pc' = "loop"
          /\ batchResults' # <<>>
          /\ Last(batchResults').problem_id = problems[i].id
          /\ results' = Append(results, Last(batchResults'))]_vars
  /\ [][results' = results \/
        (Len(results') = Len(results) + 1 /\ IsPrefix(results, results'))]_vars
  /\ [][GenerateReport => results' = results]_vars

C5_Witness ==
  /\ Len(results) = 2
  /\ results[1].error # Null
  /\ results[2].error = Null
  /\ report # NoReport

\* C6: outside the await of a child process no temporary file exists: each
\* file validateSyntax or runTestCases created is gone when the operation
\* goes on.
C6_TempFilesDeleted == pc \notin {"syntax_wait", "test_wait"} => files = {}

\* C7: no invocation writes its temporary file to a path that an earlier
\* invocation has written.
C7_UniqueTempNames ==
  [][(tempFile = NoFile /\ tempFile' # NoFile) => tempFile' \notin tempPaths]_vars

\* C8: every call of evaluateProblem returns in the end.
C8_EvaluateProblemReturns == (pc \in InProblem) ~> (pc = "loop")

C10_OneResultPerTest ==
  /\ pc \in {"test_loop", "test_wait"} =>
       /\ Len(testResults) = ti
       /\ \A k \in 1..Len(testResults) :
            /\ testResults[k].test_id = k - 1
            /\ testResults[k].test_case = problems[i].test_cases[k]
  /\ \A n \in 1..Len(results) :
       LET r == results[n]
           testCases == ProblemOf(r.problem_id).test_cases
       IN r.error = Null =>
            /\ Len(r.test_results) = Len(testCases)
            /\ \A k \in 1..Len(testCases) :
                 /\ r.test_results[k].test_id = k - 1
                 /\ r.test_results[k].test_case = testCases[k]

C10_Witness ==
  \E n \in 1..Len(results) :
    LET tr == results[n].test_results IN
    /\ Len(tr) >= 2
    /\ tr[1].error = ExecError
    /\ tr[2].passed

\* C11: when the syntax checker rejects the extracted fix, evaluateProblem
\* returns at once with a result that has a recorded error and success = FALSE,
\* whatever test cases the problem has, and whose test_results is the empty
\* sequence.
C11_SyntaxRejectionRecorded ==
  [][SyntaxRejects =>
       /\ Len(results') = Len(results) + 1
       /\ Last(results').error # Null
       /\ ~Last(results').success
       /\ Last(results').test_results = <<>>
       /\ Last(results').test_results # Null]_vars

C11_Witness ==
  /\ Len(results) = 1
  /\ results[1].error = SyntaxError
  /\ results[1].patch # Null
  /\ NumTests(results[1]) = 1
  /\ outcomeLog = << << <<"writeFile", <<"ok">>, <<>> >>,
                        <<"checker", ExecError, <<>> >> >> >>

\* a text with no fence and no statement keyword, or whose only fenced block
\* holds nothing but whitespace
NothingToExtract(text) ==
  \/ /\ ~Includes(text, "FENCE")
     /\ \A k \in 1..Len(text) : text[k] \notin Keywords
  \/ /\ Len(text) >= 3
     /\ text[1] = "FENCE" /\ text[2] = "python" /\ text[Len(text)] = "FENCE"
     /\ \A k \in 3..(Len(text) - 1) : text[k] \in WS

\* C15: when the analysis holds no fenced block and no statement line, or the
\* matched block is empty, evaluateProblem ends with success = FALSE and the
\* "Could not extract ..." error, generated_fix stays null, and neither
\* generatePatch nor a child process was started; a generated_fix that is set
\* is never the empty string.
C15_NothingExtracted ==
  /\ [][\A text \in AgentAnalyses :
          (AnalyzeResolves(text) /\ NothingToExtract(text)) =>
             /\ Len(results') = Len(results) + 1
             /\ ~Last(results').success
             /\ Last(results').error = ExtractionError
             /\ Includes(Last(results').error, "Could not extract fixed code from analysis")
             /\ Last(results').generated_fix = Null
             /\ Last(results').patch = Null
             /\ Last(stageLog') = <<"analyze", "extract">>
             /\ Last(outcomeLog') = <<>>
             /\ UNCHANGED << files, tempPaths, child >>]_vars
  /\ [](/\ \A k \in 1..Len(results) :
             results[k].generated_fix # Null => results[k].generated_fix # <<>>
        /\ (result # NoResult /\ result.generated_fix # Null) =>
             result.generated_fix # <<>>)

C15_Witness ==
  /\ Len(results) = 1
  /\ results[1].error = ExtractionError
  /\ results[1].analysis = <<"FENCE", "python", "NL", "FENCE">>
  /\ results[1].generated_fix = Null

\* ---- what the claims about extractFixedCode call a block and a line
\* a fence at q followed by one of tags, closed by the next fence, at c
IsBlock(s, q, c, tags) ==
  /\ q + 1 < c /\ c <= Len(s)
  /\ s[q] = "FENCE" /\ s[q + 1] \in tags /\ s[c] = "FENCE"
  /\ \A m \in (q + 2)..(c - 1) : s[m] # "FENCE"
\* the label at p, then nothing but blanks and line breaks, then a python block
IsLabeledBlock(s, p, q, c) ==
  /\ p < q
  /\ s[p] \in {"FIXED_CODE:", "fixed_code:"}
  /\ \A m \in (p + 1)..(q - 1) : s[m] \in WS
  /\ IsBlock(s, q, c, {"python", "Python"})
HasLabeledBlock(s) ==
  \E p \in 1..Len(s), q \in 1..Len(s), c \in 1..Len(s) : IsLabeledBlock(s, p, q, c)
HasPythonBlock(s) ==
  \E q \in 1..Len(s), c \in 1..Len(s) : IsBlock(s, q, c, {"python"})
Content(s, q, c) == Trim(SubSeq(s, q + 2, c - 1))
ExtractCalled == call.op = "extractFixedCode" /\ call.done

FirstAnyBlock(s) ==
  LET q == FirstFence(s, 1)
      c == FirstFence(s, q + 1)
      tagged == q + 1 < c /\ s[q + 1] \notin WS
  IN Trim(SubSeq(s, IF tagged THEN q + 2 ELSE q + 1, c - 1))
HasAnyBlock(s) == FirstFence(s, 1) # 0 /\ FirstFence(s, FirstFence(s, 1) + 1) # 0

\* C13 as stated: with no labeled block in the text, the extracted fix is the
\* content of the first fenced block, whatever its language tag.
C13_FirstBlockOfAnyKind ==
  ExtractCalled =>
    ((~HasLabeledBlock(call.arg) /\ HasAnyBlock(call.arg)) =>
       call.ret = FirstAnyBlock(call.arg))

\* C13, amended: with no labeled block in the text, and a fence immediately
\* followed by the lower-case tag python and closed by a later fence, the
\* extracted fix is the trimmed text between the first such tag and the next
\* fence; a block with another tag, with the tag in another case, or with no
\* tag is passed over by this tier.
C13_FirstPythonBlock ==
  ExtractCalled =>
    LET s == call.arg IN
    ~HasLabeledBlock(s) =>
      \A q \in 1..Len(s), c \in 1..Len(s) :
        ( /\ IsBlock(s, q, c, {"python"})
          /\ \A q2 \in 1..(q - 1), c2 \in 1..Len(s) : ~IsBlock(s, q2, c2, {"python"}) )
        => call.ret = Content(s, q, c)

C13_Witness ==
  /\ ExtractCalled
  /\ call.arg = <<"FENCE", "js", "NL", "c", "NL", "FENCE", "NL",
                  "FENCE", "python", "NL", "b", "NL", "FENCE">>
  /\ call.ret = <<"b">>

\* a line of the text that opens a statement: it starts with a keyword, or it
\* is indented and not blank
LineEnd(s, p) == Min({k \in p..(Len(s) + 1) : k = Len(s) + 1 \/ s[k] = "NL"})
OpensStatement(s, p) ==
  /\ p <= Len(s)
  /\ \/ s[p] \in Keywords
     \/ s[p] = "SP" /\ \E k \in p..(LineEnd(s, p) - 1) : s[k] # "SP"

\* C14 as stated: when neither a labeled block nor a python block matched, the
\* line scan starts at the first line that opens a statement (a keyword line or
\* an indented line) and the extracted fix is that line and every later line.
C14_LineScanFromFirstStatement ==
  ExtractCalled =>
    LET s == call.arg
        L == {p \in LineStarts(s) : OpensStatement(s, p)}
    IN (~HasLabeledBlock(s) /\ ~HasPythonBlock(s) /\ L # {}) =>
         call.ret = Trim(SubSeq(s, Min(L), Len(s)))

\* C16: the verdict does not depend on the patch text. Two evaluateProblem
\* runs on the same problem that got the same analysis and the same answers
\* from the file system and the child processes, and in which generatePatch
\* returned a text, agree on success, error, generated_fix and test_results,
\* whatever the two patch texts were.
C16_PatchTextIgnored ==
  \A j \in 1..Len(batchResults), k \in 1..Len(batchResults) :
    LET a == batchResults[j]
        b == batchResults[k]
    IN ( /\ a.problem_id = b.problem_id
         /\ a.analysis = b.analysis
         /\ a.patch # Null /\ b.patch # Null
         /\ outcomeLog[j] = outcomeLog[k] )
       => /\ a.success = b.success
          /\ a.error = b.error
          /\ a.generated_fix = b.generated_fix
          /\ a.test_results = b.test_results

C16_Witness ==
  /\ Len(batchResults) = 2
  /\ batchResults[1].problem_id = batchResults[2].problem_id
  /\ batchResults[1].patch = <<"---", "+++">>
  /\ batchResults[2].patch = <<"w">>
  /\ outcomeLog[1] = outcomeLog[2]
  /\ Len(batchResults[1].test_results) = 1
  /\ batchResults[1].success /\ batchResults[2].success

\* the value of a digit token, and of a string of digit tokens
DigitValue(tok) == CHOOSE d \in 0..9 : Digit(d) = tok
RECURSIVE Value(_)
Value(ds) ==
  IF ds = <<>> THEN 0 ELSE 10 * Value(SubSeq(ds, 1, Len(ds) - 1)) + DigitValue(ds[Len(ds)])
IsDigits(ds) == \A k \in 1..Len(ds) : \E d \in 0..9 : ds[k] = Digit(d)
\* s reads: digits, a point, two digits, a percent sign
IsRate(s) ==
  /\ Len(s) >= 5
  /\ s[Len(s)] = "%" /\ s[Len(s) - 3] = "."
  /\ IsDigits(SubSeq(s, 1, Len(s) - 4)) /\ IsDigits(SubSeq(s, Len(s) - 2, Len(s) - 1))
  /\ (Len(s) > 5 => s[1] # "0")
\* the hundredths of a percent such an s stands for
Hundredths(s) ==
  100 * Value(SubSeq(s, 1, Len(s) - 4)) + Value(SubSeq(s, Len(s) - 2, Len(s) - 1))
Abs(x) == IF x < 0 THEN -x ELSE x
ReportCalled == call.op = "generateReport" /\ call.done

EntryOf(entries, provider) ==
  entries[CHOOSE k \in 1..Len(entries) : entries[k].provider = provider]
HasEntry(entries, provider) ==
  \E k \in 1..Len(entries) : entries[k].provider = provider
Ranked(summary) ==
  {summary.performance_ranking[j].provider : j \in 1..Len(summary.performance_ranking)}
\* the hundredths of a percent a success_rate of a report or of the catch
\* block stands for
RateValue(s) == IF s = <<"0", "%">> THEN 0 ELSE Hundredths(s)
\* s reads: digits, a point, one digit, a percent sign; and its tenths
IsAverage(s) ==
  /\ Len(s) >= 4
  /\ s[Len(s)] = "%" /\ s[Len(s) - 2] = "."
  /\ IsDigits(SubSeq(s, 1, Len(s) - 3)) /\ IsDigits(<<s[Len(s) - 1]>>)
Tenths(s) == 10 * Value(SubSeq(s, 1, Len(s) - 3)) + DigitValue(s[Len(s) - 1])
\* avg is the mean, to the nearest tenth, of the rates of the entries of
\* entries that carry no error
IsMeanOfValid(avg, entries) ==
  LET V == {k \in 1..Len(entries) : entries[k].error = Null}
      RECURSIVE Total(_)
      Total(S) == IF S = {} THEN 0
                  ELSE LET k == CHOOSE x \in S : TRUE
                       IN RateValue(entries[k].success_rate) + Total(S \ {k})
  IN V # {} =>
       /\ IsAverage(avg)
       /\ Abs(10 * Tenths(avg) * Cardinality(V) - Total(V)) <= 5 * Cardinality(V)
\* the k-th listed provider failed in setup or connection; it is the last
\* listing of its tag
FailedAt(k) == \E a \in 1..Len(cmpLog) : cmpLog[a] = <<k, "failed">>
LastListing(k) == \A j \in (k + 1)..Len(providers) : providers[j] # providers[k]
LoopOver == cmpPc \in {"writing", "done"} \/ cmpEnd.written

\* C18 as stated: once the loop is over, every listed provider whose setup or
\* connection test threw has an entry with an error message and the rate "0%"
\* and is not in performance_ranking.
C18_FailedProviderExcluded ==
  LoopOver =>
    \A k \in 1..Len(providers) :
      FailedAt(k) =>
        /\ EntryOf(provider_results, providers[k]).error # Null
        /\ EntryOf(provider_results, providers[k]).success_rate = <<"0", "%">>
        /\ providers[k] \notin Ranked(comparison_summary)

\* C18, amended: a provider whose setup or connection test throws is recorded
\* under its tag with the error message and the rate "0%", whatever was stored
\* under that tag before, and the loop goes on with the next listed provider,
\* so that every listed provider is processed. provider_results holds one
\* entry per tag: a tag listed again later is overwritten by the later
\* outcome. A tag whose last listing failed is not in performance_ranking and
\* does not count in average_success_rate.
C18_FailedProviderRecorded ==
  /\ [][(cmpPc = "loop" /\ pk <= Len(providers)) =>
          \A message \in Failures(providers[pk]) :
            ProviderFails(message) =>
              /\ EntryOf(provider_results', providers[pk]) =
                   Entry(providers[pk], message, <<"0", "%">>)
              /\ \A k \in 1..Len(provider_results) :
                   provider_results[k].provider # providers[pk] =>
                     provider_results'[k] = provider_results[k]
              /\ pk' = pk + 1 /\ cmpPc' = "loop"]_allvars
  /\ [](LoopOver =>
          /\ \A k \in 1..Len(providers) :
               /\ \E a \in 1..Len(cmpLog) :
                    cmpLog[a] \in {<<k, "failed">>, <<k, "completed">>}
               /\ (FailedAt(k) /\ LastListing(k)) =>
                    /\ EntryOf(provider_results, providers[k]).error # Null
                    /\ EntryOf(provider_results, providers[k]).success_rate = <<"0", "%">>
                    /\ providers[k] \notin Ranked(comparison_summary)
          /\ IsMeanOfValid(comparison_summary.average_success_rate, provider_results))

C18_Witness ==
  /\ cmpEnd.written
  /\ providers = << <<"claude">>, <<"ollama">> >>
  /\ FailedAt(1)
  /\ provider_results[1].error = <<"Missing environment variables", ":", "ANTHROPIC_API_KEY">>
  /\ Ranked(comparison_summary) = { <<"ollama">> }
  /\ comparison_summary.average_success_rate = <<"1", "0", "0", ".", "0", "%">>

SummaryCalled == call.op = "generateComparisonSummary" /\ call.done
\* the place of the tag provider among the keys of entries
PlaceOf(entries, provider) ==
  CHOOSE k \in 1..Len(entries) : entries[k].provider = provider

\* C19: performance_ranking holds exactly the providers whose entry is a
\* report and not an error object, each once, in descending order of their
\* numeric success rate, providers of equal rate in the order in which they
\* are listed; best_performer is the first of the ranking, and null when no
\* provider is valid; average_success_rate is the mean of the valid providers'
\* rates (written to the nearest tenth, with a percent sign).
C19_Ranking ==
  SummaryCalled =>
    LET q == call.arg
        s == call.ret
        rank == s.performance_ranking
        Rate(j) == RateValue(EntryOf(q, rank[j].provider).success_rate)
    IN /\ Ranked(s) = {q[k].provider : k \in {x \in 1..Len(q) : q[x].error = Null}}
       /\ Len(rank) = Cardinality(Ranked(s))
       /\ \A j \in 1..(Len(rank) - 1) :
            \/ Rate(j) > Rate(j + 1)
            \/ /\ Rate(j) = Rate(j + 1)
               /\ PlaceOf(q, rank[j].provider) < PlaceOf(q, rank[j + 1].provider)
       /\ s.best_performer = IF rank = <<>> THEN Null ELSE rank[1].provider
       /\ IsMeanOfValid(s.average_success_rate, q)

C19_Witness ==
  /\ SummaryCalled
  /\ call.arg = << Entry(<<"ollama">>, Null, <<"3", "3", ".", "3", "3", "%">>),
                   Entry(<<"claude">>, Null, <<"6", "6", ".", "6", "7", "%">>) >>
  /\ call.ret.best_performer = <<"claude">>
  /\ call.ret.performance_ranking[2].provider = <<"ollama">>
  /\ call.ret.average_success_rate = <<"5", "0", ".", "0", "%">>

\* C20: the providers are processed one at a time in the order listed: what
\* the loop does for provider k comes after everything it does for the providers
\* before k, no problem is evaluated with a provider before each earlier
\* provider's batch has completed or its setup has failed, and once the loop is
\* over every listed tag has an entry in provider_results.
C20_OneProviderAtATime ==
  /\ \A a \in 1..Len(cmpLog), b \in 1..Len(cmpLog) :
       a < b =>
         /\ cmpLog[a][1] <= cmpLog[b][1]
         /\ cmpLog[a][2] \in {"completed", "failed"} => cmpLog[a][1] < cmpLog[b][1]
  /\ \A b \in 1..Len(cmpLog) :
       cmpLog[b][2] = "evaluate" =>
         \A k \in 1..(cmpLog[b][1] - 1) :
           \E a \in 1..(b - 1) : cmpLog[a] \in {<<k, "completed">>, <<k, "failed">>}
  /\ (pc \in InProblem /\ cmpPc # "none") => cmpPc = "batch"
  /\ LoopOver =>
       \A k \in 1..Len(providers) : HasEntry(provider_results, providers[k])

C20_Witness ==
  /\ cmpEnd.written
  /\ providers = << <<"ollama">>, <<"claude">> >>
  /\ cmpLog = << <<1, "evaluate">>, <<1, "completed">>,
                 <<2, "evaluate">>, <<2, "completed">> >>
  /\ Len(provider_results) = 2

FactoryCalled == call.op = "createValidatedAgent" /\ call.done
\* the environment variables the provider tag requires
Required(provider) == getRequiredEnvVars(ToLowerCase(provider))
AllowList(provider) ==
  {getAvailableModels(provider)[k] : k \in 1..Len(getAvailableModels(provider))}

\* C21: when createValidatedAgent is called for a supported provider and a
\* variable the provider requires is not set in the environment, the call
\* throws the message that lists exactly the missing variables, returns no
\* agent and has entered no agent constructor; as only the generate method of
\* an agent issues requests, no request can follow.
C21_MissingCredentialFailsFirst ==
  (/\ FactoryCalled
   /\ ToLowerCase(call.arg.provider) \in SupportedProviders
   /\ \E k \in 1..Len(Required(call.arg.provider)) :
        Falsy(call.arg.env[Required(call.arg.provider)[k]]))
  => /\ call.ret.threw # Null
     /\ call.ret.threw[1] = "Missing environment variables"
     /\ \A k \in 1..Len(Required(call.arg.provider)) :
          Falsy(call.arg.env[Required(call.arg.provider)[k]])
            <=> Includes(call.ret.threw, Required(call.arg.provider)[k])
     /\ call.ret.agent = NoAgent
     /\ call.ret.constructed = <<>>

C21_Witness ==
  /\ FactoryCalled
  /\ call.arg.provider = <<"OpenAI">>
  /\ call.arg.options.apiKey = <<"sk-option">>
  /\ call.arg.env["OPENAI_API_KEY"] = Null
  /\ call.ret.threw = <<"Missing environment variables", ":", "OPENAI_API_KEY">>
  /\ call.ret.constructed = <<>>

\* C22: when the environment of a supported provider is complete,
\* createValidatedAgent resolves the model first: the provider's default when
\* none is given, and every default is on its provider's allow-list; a resolved
\* model that is not on the allow-list makes the call throw with no constructor
\* entered; otherwise the one agent constructed is of the variant the provider
\* tag names and carries the resolved model.
C22_ModelResolvedBeforeConstruction ==
  /\ \A provider \in SupportedProviders :
       getDefaultModels(provider) \in AllowList(provider)
  /\ (FactoryCalled /\ validateEnvironment(call.arg.provider, call.arg.env).valid)
     => LET provider == ToLowerCase(call.arg.provider)
            resolved == IF Falsy(call.arg.options.model)
                        THEN getDefaultModels(provider)
                        ELSE call.arg.options.model
        IN IF resolved \notin AllowList(provider)
           THEN /\ call.ret.threw # Null
                /\ call.ret.agent = NoAgent
                /\ call.ret.constructed = <<>>
           ELSE /\ call.ret.threw = Null
                /\ call.ret.constructed = <<provider[1]>>
                /\ call.ret.agent.variant = provider[1]
                /\ call.ret.agent.model = resolved

C22_Witness ==
  /\ FactoryCalled
  /\ call.arg.provider = <<"CLAUDE">>
  /\ call.arg.options.model = Null
  /\ call.ret.agent.variant = "claude"
  /\ call.ret.agent.model = <<"claude-3-sonnet-20240229">>

\* the running call has failed: its request emitted error or timeout first,
\* or its response was not JSON, carried an error, or carried no text
FirstEvent == events[1]
GenerateFailed ==
  /\ events # <<>>
  /\ \/ FirstEvent[1] \in {"error", "timeout"}
     \/ /\ FirstEvent[1] = "end"
        /\ \/ ~FirstEvent[2].parses
           \/ ~Falsy(FirstEvent[2].error)
           \/ Falsy(FirstEvent[2].text)
TestConnectionReturned == method = "testConnection" /\ returned.done

\* C24: whatever variant the agent is, a testConnection call that has come
\* back has not thrown and has returned a boolean: false when generate failed
\* (provider error, network failure, timeout, unparsable or empty response),
\* and true only when generate was fulfilled with a non-empty text.
C24_TestConnectionNeverThrows ==
  TestConnectionReturned =>
    /\ ~returned.threw
    /\ returned.value \in {<<"true">>, <<"false">>}
    /\ GenerateFailed => returned.value = <<"false">>
    /\ returned.value = <<"true">> =>
         /\ promise.state = "fulfilled"
         /\ promise.value # <<>>
         /\ FirstEvent[1] = "end"
         /\ promise.value = FirstEvent[2].text

C24_Witness ==
  /\ TestConnectionReturned
  /\ agent.variant = "gemini"
  /\ events = << <<"timeout">>, <<"error", SocketHangUp>> >>
  /\ returned.value = <<"false">>

\* C25: a generate call writes exactly one request, when it starts, and no
\* request is written while it runs (no retry); its promise is settled by the
\* first event of the request, with the text of the response or with the
\* failure of a provider error, a network error or a timeout, and once
\* settled it keeps its value; after a timeout the promise holds the timeout
\* failure, also once the destroyed request has emitted its error.
C25_OneRequestOneSettlement ==
  /\ [][(method = "none" /\ method' # "none")
          => Len(requests') = Len(requests) + 1]_allvars
  /\ [][method # "none" => requests' = requests]_allvars
  /\ [][(promise.state # "pending" /\ method # "none") => promise' = promise]_allvars
  /\ [](events # <<>> =>
          /\ promise.state # "pending"
          /\ FirstEvent[1] = "error" => promise = Rejected(<<"Request failed", ":">> \o FirstEvent[2])
          /\ FirstEvent[1] = "timeout" => promise = OnTimeout
          /\ (FirstEvent[1] = "end" /\ ~Falsy(FirstEvent[2].error) /\ FirstEvent[2].parses)
               => (promise.state = "rejected" /\ Includes(promise.value, "overloaded"))
          /\ (FirstEvent[1] = "end" /\ promise.state = "fulfilled")
               => promise.value = OrElse(FirstEvent[2].text, <<>>))
  /\ [](events = <<>> => promise.state = "pending")

C25_Witness ==
  /\ events = << <<"timeout">>, <<"error", SocketHangUp>> >>
  /\ promise = OnTimeout
  /\ req = "closed"
  /\ Len(requests) = 1

\* C26: in every request generate has written, a request of generatePatch
\* carries the temperature 0 and a request of analyzeCode the temperature 0.1.
C26_PinnedTemperatures ==
  \A k \in 1..Len(requests) :
    /\ requests[k].caller = "generatePatch" => requests[k].temperature = "0"
    /\ requests[k].caller = "analyzeCode" => requests[k].temperature = "0.1"

\* the remote outcome carries a text: a response that parses, has no error
\* and holds a text, which may be empty
CarriesText(remote) ==
  /\ remote.kind = "response"
  /\ remote.body.parses
  /\ Falsy(remote.body.error)
  /\ remote.body.text # Null
\* the outcomes the variants are compared on: a structured error, a text, a
\* network failure, a timeout
Logical(remote) ==
  \/ remote.kind \in {"network", "timeout"}
  \/ CarriesText(remote)
  \/ remote.kind = "response" /\ remote.body.parses /\ ~Falsy(remote.body.error)

\* C27: for the same remote outcome (structured error, generated text that
\* may be empty, network failure, timeout) generate of every variant ends the
\* same way: fulfilled with the text when the response carries one, rejected
\* otherwise.
C27_VariantsEquivalent ==
  (call.op = "generate" /\ call.done /\ Logical(call.arg)) =>
    \A variant \in Variants :
      IF CarriesText(call.arg)
      THEN call.ret[variant] = Fulfilled(call.arg.body.text)
      ELSE call.ret[variant].state = "rejected"

\* the Evaluator of the command has been given a problem
EvaluationBegun == pc # "idle" \/ results # <<>> \/ outcomeLog # <<>>

\* C23: in an evaluate or batch command evaluateProblem is called only when
\* createValidatedAgent has returned an agent and testConnection has answered
\* true; a command that exited on a configuration error or on a failed probe
\* has evaluated nothing, and a command that has exited does not go on.
C23_NoEvaluationWithoutConnection ==
  /\ [][(runPc # "none" /\ EvaluateProblem)
          => (agent # NoAgent /\ connected = <<"true">>)]_allvars
  /\ [](EvaluationBegun => (agent # NoAgent /\ connected = <<"true">>))
  /\ []((runPc = "exited" /\ (agent = NoAgent \/ connected = <<"false">>))
          => ~EvaluationBegun)
  /\ [][runPc = "exited" => runPc' = "exited" /\ UNCHANGED vars]_allvars

C23_Witness ==
  /\ runPc = "exited"
  /\ command = "batch"
  /\ agent.variant = "claude"
  /\ connected = <<"false">>
  /\ events = << <<"end", TextEnvelope(<<>>)>> >>
  /\ ~EvaluationBegun

\* C30: once every listed provider is processed and the report file is
\* written, compareProviders has printed the whole comparison summary and
\* returned normally; it has exited with status 1 only because loading the
\* problems or writing the report failed.
C30_ReturnsAfterReport ==
  /\ cmpEnd.written =>
       /\ cmpPc = "done"
       /\ cmpEnd.error = Null
       /\ Last(cmpEnd.printed) = "Detailed report saved to"
  /\ cmpPc = "exited" => cmpEnd.error \in {LoadError, WriteError}

Has(list, id) == \E k \in 1..Len(list) : list[k].id = id

RECURSIVE ModeAfter(_)
ModeAfter(n) ==
  IF n = 0 THEN FALSE
  ELSE LET r == handled[n].request IN
       IF r.method = "POST" /\ r.path = "/down" THEN TRUE
       ELSE IF r.method = "POST" /\ r.path = "/up" THEN FALSE
       ELSE ModeAfter(n - 1)

\* C29: maintenance mode starts disabled and is at any time what the last
\* POST /down or POST /up request made it; the guard has admitted a request
\* exactly when its path is /up or /down or the mode was disabled when it
\* arrived; in every state the guard admits a request to /up, and a POST /up
\* request leaves the mode disabled.
C29_GuardAdmits ==
  /\ [](isEnabled = ModeAfter(Len(handled)))
  /\ [](\A n \in 1..Len(handled) :
          handled[n].admitted <=>
            \/ handled[n].request.path \in {"/up", "/down"}
            \/ ~ModeAfter(n - 1))
  /\ [](canActivate("/up", isEnabled))
  /\ [][HandleRequest([method |-> "POST", path |-> "/up"])
          => (Last(handled').admitted /\ ~isEnabled')]_allvars

C29_Witness ==
  /\ Len(handled) = 3
  /\ handled[1] = [request |-> [method |-> "POST", path |-> "/down"], admitted |-> TRUE]
  /\ handled[2] = [request |-> [method |-> "GET", path |-> "/todos"], admitted |-> FALSE]
  /\ handled[3] = [request |-> [method |-> "POST", path |-> "/up"], admitted |-> TRUE]
  /\ ~isEnabled

====
